---- MODULE Spec2Model ----
(***************************************************************************)
(* Model of the restore-snapshot command of stackstate-backup-cli:         *)
(* runRestore (cmd/elasticsearch/restore-snapshot.go) and the deployment   *)
(* scaling of the Kubernetes client (internal/k8s/client.go).              *)
(*                                                                         *)
(* Strings that the code inspects character by character (index names,     *)
(* the confirmation line) are sequences of one-character strings.  An      *)
(* error value is the chain of its wrapped messages, outermost first; nil  *)
(* is the empty chain.  A *int32 is <<>> (nil) or <<n>>.                   *)
(***************************************************************************)
EXTENDS Integers, Sequences, FiniteSets, TLC

\* ------------------------------------------------------------------ bounds
\* Largest replica count a deployment starts with.
MaxReplicas == 1
\* Largest number of indices the search engine lists.
MaxIndices == 2

\* -------------------------------------------------------- program constants
defaultMaxIndexDeleteAttempts == 30

\* ------------------------------------------------------------ model values
\* Deployments of the namespace, in the order the API server lists them.
DeploymentNames == <<"A", "B">>

\* cfg.Elasticsearch.Restore.IndexPrefix ("sts_")
IndexPrefix == <<"s", "_">>
\* cfg.Elasticsearch.Restore.DatastreamIndexPrefix ("sts_k8s_logs")
DatastreamIndexPrefix == <<"s", "_", "k">>

\* Index names the search engine may hold: sts_topology, the bare
\* data-stream name, a backing index of the data stream, and a foreign index.
IndexNames ==
    { <<"s", "_", "t">>, <<"s", "_", "k">>, <<"s", "_", "k", "-", "1">>, <<"o">> }

\* cfg.Elasticsearch.Restore.Repository, cfg.Elasticsearch.Restore.IndicesPattern
\* and the --snapshot-name flag.
Repository == "sts-backup"
IndicesPattern == "sts_*"
snapshotName == "snap-1"

\* Lines the operator may type at the confirmation prompt; a line without
\* its newline is input that ended before the delimiter.
StdinLines ==
    { <<" ", "Y", "E", "S", " ", "\n">>, <<"n", "o", "\n">>, <<"\n">>, <<"y">> }

\* Longest input typed at the confirmation prompt when confirmDeletion is
\* called on its own.
MaxLine == 5
MaxLogCalls == 3
MaxRows == 2
MaxPods == 3

\* ------------------------------------------------------------------ state
VARIABLES
    pc,                 \* position of the command
    dropAllIndices,     \* --drop-all-indices
    skipConfirmation,   \* --yes
    quiet,              \* cliCtx.Config.Quiet
    cluster,            \* deployments of the namespace: name -> [matches, replicas]
    initialCluster,     \* the deployments as they were before the run
    items,              \* deployments.Items of ScaleDownDeployments
    i,                  \* index of the running loop
    captured,           \* scaledDeployments local to ScaleDownDeployments
    subErr,             \* error returned by the k8s client call in progress
    scaledDeployments,  \* scaledDeployments of runRestore
    defers,             \* deferred functions of runRestore, last registered last
    tunnel,             \* background port-forward task
    stopChan,           \* stop channel of the tunnel
    stsIndices,         \* stsIndices of runRestore
    attempt,            \* attempt of deleteIndexWithVerification
    answers,            \* answers of IndexExists to the running verification
    sleeps,             \* time.Sleep calls of the running verification
    delErr,             \* error returned by deleteIndexWithVerification
    snapshotState,      \* State of the snapshot returned by GetSnapshot
    err,                \* error returned by runRestore
    exitCode,           \* exit status of the process, -1 while running
    calls,              \* calls made on the collaborators, in order (the
                        \* polls of IndexExists that answer are not traced)
    scaleUpCalls,       \* argument of each ScaleUpDeployments invocation
    restoreCalls,       \* arguments of each RestoreSnapshot invocation
    log,                \* lines written by the logger
    args,               \* arguments of the function called on its own
    result              \* what that function returned

vars == << pc, dropAllIndices, skipConfirmation, quiet, cluster,
           initialCluster, items, i,
           captured, subErr, scaledDeployments, defers, tunnel, stopChan,
           stsIndices, attempt, answers, sleeps, delErr, snapshotState, err,
           exitCode, calls, scaleUpCalls, restoreCalls, log, args, result >>

flags == << dropAllIndices, skipConfirmation, quiet, initialCluster >>
scaleVars == << items, i, captured, subErr >>
tunnelVars == << tunnel, stopChan >>
verifyVars == << attempt, answers, sleeps, delErr >>
esVars == << stsIndices, verifyVars, snapshotState >>
fnVars == << args, result >>

\* ---------------------------------------------------------------- helpers
Range(s) == { s[k] : k \in DOMAIN s }

\* strings.HasPrefix
HasPrefix(s, prefix) ==
    /\ Len(prefix) <= Len(s)
    /\ SubSeq(s, 1, Len(prefix)) = prefix

\* An error message, with the deployment or index it names.
Err(msg) == [msg |-> msg, dep |-> "", idx |-> <<>>]
ErrDep(msg, d) == [msg |-> msg, dep |-> d, idx |-> <<>>]
ErrIdx(msg, x) == [msg |-> msg, dep |-> "", idx |-> x]
\* fmt.Errorf("...: %w", inner)
Wrap(outer, inner) == <<outer>> \o inner
\* The error of a failed remote call.
ApiError == << Err("api error") >>

\* One call on a collaborator and whether it succeeded.
Call(op, d, x, n, ok) == [op |-> op, dep |-> d, idx |-> x, n |-> n, ok |-> ok]

\* Logger methods: everything but Errorf and Debugf is dropped in quiet mode.
LogLine(level, text, e) == [level |-> level, text |-> text, err |-> e]
Infof(l, text) == IF ~quiet THEN Append(l, LogLine("info", text, <<>>)) ELSE l
Successf(l, text) == IF ~quiet THEN Append(l, LogLine("success", text, <<>>)) ELSE l
Warningf(l, text, e) == IF ~quiet THEN Append(l, LogLine("warning", text, e)) ELSE l
Println(l) == IF ~quiet THEN Append(l, LogLine("blank", "", <<>>)) ELSE l

\* The value of a *int32 replica count, nil counting as 0.
OriginalReplicas(replicas) == IF replicas = <<>> THEN 0 ELSE replicas[1]

\* Deployments().List without the label selector: every deployment of the
\* namespace.
ListDeployments_NoSelector(c) ==
    [k \in 1..Len(DeploymentNames) |->
        [name |-> DeploymentNames[k], replicas |-> c[DeploymentNames[k]].replicas]]

\* Deployments().List with the label selector: the matching deployments in
\* listing order.
RECURSIVE ListFrom(_, _)
ListFrom(c, k) ==
    IF k > Len(DeploymentNames) THEN <<>>
    ELSE LET name == DeploymentNames[k]
             rest == ListFrom(c, k + 1)
         IN  IF c[name].matches
             THEN <<[name |-> name, replicas |-> c[name].replicas]>> \o rest
             ELSE rest
ListDeployments(c) == ListFrom(c, 1)

\* A return statement of runRestore: the locals of the body are gone and the
\* deferred functions run next.
Return(e) ==
    /\ err' = e
    /\ pc' = "defers"
    /\ stsIndices' = <<>>
    /\ attempt' = 0
    /\ answers' = <<>>
    /\ sleeps' = 0
    /\ delErr' = <<>>
    /\ snapshotState' = ""

\* ------------------------------------------------------------------- Init
ReplicaValues == { <<>> } \cup { <<n>> : n \in 0..MaxReplicas }

Init ==
    /\ pc = "newK8sClient"
    /\ dropAllIndices \in BOOLEAN
    /\ skipConfirmation \in BOOLEAN
    /\ quiet \in BOOLEAN
    /\ cluster \in [Range(DeploymentNames) -> [matches : BOOLEAN, replicas : ReplicaValues]]
    /\ initialCluster = cluster
    /\ items = <<>>
    /\ i = 0
    /\ captured = <<>>
    /\ subErr = <<>>
    /\ scaledDeployments = <<>>
    /\ defers = <<>>
    /\ tunnel = "none"
    /\ stopChan = "nil"
    /\ stsIndices = <<>>
    /\ attempt = 0
    /\ answers = <<>>
    /\ sleeps = 0
    /\ delErr = <<>>
    /\ snapshotState = ""
    /\ err = <<>>
    /\ exitCode = -1
    /\ calls = <<>>
    /\ scaleUpCalls = <<>>
    /\ restoreCalls = <<>>
    /\ log = <<>>
    /\ args = <<>>
    /\ result = <<>>

\* ------------------------------------------------- runRestore: preparation
\* k8s.NewClient
NewK8sClient ==
    /\ pc = "newK8sClient"
    /\ \/ /\ calls' = Append(calls, Call("NewK8sClient", "", <<>>, 0, FALSE))
          /\ Return(Wrap(Err("failed to create Kubernetes client"), ApiError))
       \/ /\ calls' = Append(calls, Call("NewK8sClient", "", <<>>, 0, TRUE))
          /\ pc' = "loadConfig"
          /\ UNCHANGED << err, esVars >>
    /\ UNCHANGED << flags, restoreCalls, fnVars, cluster, scaleVars, scaledDeployments, defers,
                    tunnelVars, exitCode, scaleUpCalls, log >>

\* config.LoadConfig
LoadConfig ==
    /\ pc = "loadConfig"
    /\ \/ /\ calls' = Append(calls, Call("LoadConfig", "", <<>>, 0, FALSE))
          /\ Return(Wrap(Err("failed to load configuration"), ApiError))
       \/ /\ calls' = Append(calls, Call("LoadConfig", "", <<>>, 0, TRUE))
          /\ pc' = "scaleDownList"
          /\ UNCHANGED << err, esVars >>
    /\ UNCHANGED << flags, restoreCalls, fnVars, cluster, scaleVars, scaledDeployments, defers,
                    tunnelVars, exitCode, scaleUpCalls, log >>

\* ------------------------------------------- k8s.Client.ScaleDownDeployments
\* The listing of the matching deployments and the early return on none.
ScaleDownList ==
    /\ pc = "scaleDownList"
    /\ \/ /\ calls' = Append(calls, Call("ListDeployments", "", <<>>, 0, FALSE))
          /\ subErr' = Wrap(Err("failed to list deployments"), ApiError)
          /\ items' = <<>>
          /\ captured' = <<>>
          /\ i' = 0
          /\ pc' = "scaleDownWrapper"
       \/ /\ calls' = Append(calls, Call("ListDeployments", "", <<>>, 0, TRUE))
          /\ items' = ListDeployments(cluster)
          /\ captured' = <<>>
          /\ subErr' = <<>>
          /\ IF Len(items') = 0
             THEN i' = 0 /\ pc' = "scaleDownWrapper"
             ELSE i' = 1 /\ pc' = "scaleDownLoop"
    /\ UNCHANGED << flags, restoreCalls, fnVars, cluster, scaledDeployments, defers, tunnelVars,
                    esVars, err, exitCode, scaleUpCalls, log >>

\* ScaleDownStep updating every deployment, those already at zero included.
ScaleDownStep_UpdateZero ==
    /\ pc = "scaleDownLoop"
    /\ LET d == items[i]
           originalReplicas == OriginalReplicas(d.replicas)
           next == /\ IF i = Len(items)
                      THEN pc' = "scaleDownWrapper" /\ i' = i
                      ELSE pc' = "scaleDownLoop" /\ i' = i + 1
                   /\ subErr' = <<>>
       IN  /\ captured' = Append(captured, [Name |-> d.name, Replicas |-> originalReplicas])
           /\ IF originalReplicas >= 0
              THEN \/ /\ calls' = Append(calls, Call("UpdateDeployment", d.name, <<>>, 0, TRUE))
                      /\ cluster' = [cluster EXCEPT ![d.name].replicas = <<0>>]
                      /\ next
                   \/ /\ calls' = Append(calls, Call("UpdateDeployment", d.name, <<>>, 0, FALSE))
                      /\ subErr' = Wrap(ErrDep("failed to scale down deployment", d.name), ApiError)
                      /\ pc' = "scaleDownWrapper"
                      /\ UNCHANGED << cluster, i >>
              ELSE /\ next
                   /\ UNCHANGED << cluster, calls >>
    /\ UNCHANGED << flags, restoreCalls, fnVars, items, scaledDeployments, defers, tunnelVars,
                    esVars, err, exitCode, scaleUpCalls, log >>

\* One iteration of the loop over deployments.Items: record the original
\* count, then scale to zero when it is positive.
ScaleDownStep ==
    /\ pc = "scaleDownLoop"
    /\ LET d == items[i]
           originalReplicas == OriginalReplicas(d.replicas)
           next == /\ IF i = Len(items)
                      THEN pc' = "scaleDownWrapper" /\ i' = i
                      ELSE pc' = "scaleDownLoop" /\ i' = i + 1
                   /\ subErr' = <<>>
       IN  /\ captured' = Append(captured, [Name |-> d.name, Replicas |-> originalReplicas])
           /\ IF originalReplicas > 0
              THEN \/ /\ calls' = Append(calls, Call("UpdateDeployment", d.name, <<>>, 0, TRUE))
                      /\ cluster' = [cluster EXCEPT ![d.name].replicas = <<0>>]
                      /\ next
                   \/ /\ calls' = Append(calls, Call("UpdateDeployment", d.name, <<>>, 0, FALSE))
                      /\ subErr' = Wrap(ErrDep("failed to scale down deployment", d.name), ApiError)
                      /\ pc' = "scaleDownWrapper"
                      /\ UNCHANGED << cluster, i >>
              ELSE /\ next
                   /\ UNCHANGED << cluster, calls >>
    /\ UNCHANGED << flags, restoreCalls, fnVars, items, scaledDeployments, defers, tunnelVars,
                    esVars, err, exitCode, scaleUpCalls, log >>

\* ScaleDownWrapper going on with the run after a failed scale-down.
ScaleDownWrapper_IgnoreError ==
    /\ pc = "scaleDownWrapper"
    /\ IF FALSE
       THEN /\ scaledDeployments' = <<>>
            /\ Return(Wrap(Err("failed to scale down deployments"), subErr))
            /\ UNCHANGED << defers, log >>
       ELSE /\ scaledDeployments' = captured
            /\ log' = IF Len(captured) = 0
                      THEN Infof(log, "No deployments found to scale down")
                      ELSE Successf(log, "Scaled down deployment(s)")
            /\ defers' = Append(defers, "scaleUp")
            /\ pc' = "portForward"
            /\ UNCHANGED << err, esVars >>
    /\ UNCHANGED << flags, restoreCalls, fnVars, cluster, scaleVars, tunnelVars, exitCode, calls,
                    scaleUpCalls >>

\* scaleDownDeployments of the command, and the registration of the deferred
\* scale-up in runRestore.
ScaleDownWrapper ==
    /\ pc = "scaleDownWrapper"
    /\ IF subErr # <<>>
       THEN /\ scaledDeployments' = <<>>
            /\ Return(Wrap(Err("failed to scale down deployments"), subErr))
            /\ UNCHANGED << defers, log >>
       ELSE /\ scaledDeployments' = captured
            /\ log' = IF Len(captured) = 0
                      THEN Infof(log, "No deployments found to scale down")
                      ELSE Successf(log, "Scaled down deployment(s)")
            /\ defers' = Append(defers, "scaleUp")
            /\ pc' = "portForward"
            /\ UNCHANGED << err, esVars >>
    /\ UNCHANGED << flags, restoreCalls, fnVars, cluster, scaleVars, tunnelVars, exitCode, calls,
                    scaleUpCalls >>

\* ---------------------------------------------------- runRestore: tunnel
\* k8sClient.PortForwardService and the deferred close of the stop channel.
PortForwardService ==
    /\ pc = "portForward"
    /\ \/ /\ calls' = Append(calls, Call("PortForwardService", "", <<>>, 0, FALSE))
          /\ Return(Wrap(Err("failed to setup port-forward"), ApiError))
          /\ UNCHANGED << tunnelVars, defers >>
       \/ /\ calls' = Append(calls, Call("PortForwardService", "", <<>>, 0, TRUE))
          /\ tunnel' = "forwarding"
          /\ stopChan' = "open"
          /\ defers' = Append(defers, "closeStop")
          /\ pc' = "waitReady"
          /\ UNCHANGED << err, esVars >>
    /\ UNCHANGED << flags, restoreCalls, fnVars, cluster, scaleVars, scaledDeployments, exitCode,
                    scaleUpCalls, log >>

\* The background task of PortForwardPod: ForwardPorts closes the ready
\* channel once the listeners are up.
ForwardPortsReady ==
    /\ tunnel = "forwarding"
    /\ tunnel' = "ready"
    /\ UNCHANGED << pc, flags, restoreCalls, fnVars, cluster, scaleVars, scaledDeployments, defers,
                    stopChan, esVars, err, exitCode, calls, scaleUpCalls, log >>

\* ForwardPorts returns an error before the ready channel is closed.
ForwardPortsFail ==
    /\ tunnel = "forwarding"
    /\ tunnel' = "failed"
    /\ UNCHANGED << pc, flags, restoreCalls, fnVars, cluster, scaleVars, scaledDeployments, defers,
                    stopChan, esVars, err, exitCode, calls, scaleUpCalls, log >>

\* WaitReady going on without the ready channel being closed.
WaitReady_NoWait ==
    /\ pc = "waitReady"
    /\ pc' = "newESClient"
    /\ calls' = Append(calls, Call("ReadyReceived", "", <<>>, 0, TRUE))
    /\ UNCHANGED << flags, restoreCalls, fnVars, cluster, scaleVars, scaledDeployments, defers,
                    tunnelVars, esVars, err, exitCode, scaleUpCalls, log >>

\* <-readyChan
WaitReady ==
    /\ pc = "waitReady"
    /\ tunnel = "ready"
    /\ pc' = "newESClient"
    /\ calls' = Append(calls, Call("ReadyReceived", "", <<>>, 0, TRUE))
    /\ UNCHANGED << flags, restoreCalls, fnVars, cluster, scaleVars, scaledDeployments, defers,
                    tunnelVars, esVars, err, exitCode, scaleUpCalls, log >>

\* elasticsearch.NewClient
NewESClient ==
    /\ pc = "newESClient"
    /\ \/ /\ calls' = Append(calls, Call("NewESClient", "", <<>>, 0, FALSE))
          /\ Return(Wrap(Err("failed to create Elasticsearch client"), ApiError))
       \/ /\ calls' = Append(calls, Call("NewESClient", "", <<>>, 0, TRUE))
          /\ pc' = "listIndices"
          /\ UNCHANGED << err, esVars >>
    /\ UNCHANGED << flags, restoreCalls, fnVars, cluster, scaleVars, scaledDeployments, defers,
                    tunnelVars, exitCode, scaleUpCalls, log >>

\* ------------------------------------------------- index set classification
\* filterSTSIndices testing the index prefix only.
RECURSIVE filterSTSIndices_IndexPrefixOnly(_, _, _)
filterSTSIndices_IndexPrefixOnly(allIndices, indexPrefix, datastreamPrefix) ==
    IF allIndices = <<>> THEN <<>>
    ELSE LET index == Head(allIndices)
             rest == filterSTSIndices_IndexPrefixOnly(Tail(allIndices), indexPrefix,
                                                      datastreamPrefix)
         IN  IF HasPrefix(index, indexPrefix)
             THEN <<index>> \o rest
             ELSE rest

\* filterSTSIndices
RECURSIVE filterSTSIndices(_, _, _)
filterSTSIndices(allIndices, indexPrefix, datastreamPrefix) ==
    IF allIndices = <<>> THEN <<>>
    ELSE LET index == Head(allIndices)
             rest == filterSTSIndices(Tail(allIndices), indexPrefix, datastreamPrefix)
         IN  IF HasPrefix(index, indexPrefix) \/ HasPrefix(index, datastreamPrefix)
             THEN <<index>> \o rest
             ELSE rest

\* hasDatastreamIndices matching the data-stream prefix without the dash.
hasDatastreamIndices_NoDash(indices, datastreamPrefix) ==
    \E k \in DOMAIN indices : HasPrefix(indices[k], datastreamPrefix)

\* hasDatastreamIndices asking every index to be a backing index.
hasDatastreamIndices_Every(indices, datastreamPrefix) ==
    \A k \in DOMAIN indices : HasPrefix(indices[k], datastreamPrefix \o <<"-">>)

\* hasDatastreamIndices
hasDatastreamIndices(indices, datastreamPrefix) ==
    \E k \in DOMAIN indices : HasPrefix(indices[k], datastreamPrefix \o <<"-">>)

\* The answers of ListIndices: every duplicate-free listing of at most
\* MaxIndices index names.
Listings ==
    { l \in UNION { [1..n -> IndexNames] : n \in 0..MaxIndices } :
        \A a, b \in DOMAIN l : a # b => l[a] # l[b] }

\* ListIndices entering deleteIndices whatever dropAllIndices is.
ListIndices_AlwaysDrop ==
    /\ pc = "listIndices"
    /\ \/ /\ calls' = Append(calls, Call("ListIndices", "", <<>>, 0, FALSE))
          /\ Return(Wrap(Err("failed to list indices"), ApiError))
       \/ \E allIndices \in Listings :
          /\ calls' = Append(calls, Call("ListIndices", "", <<>>, 0, TRUE))
          /\ stsIndices' = filterSTSIndices(allIndices, IndexPrefix, DatastreamIndexPrefix)
          /\ pc' = "deleteIndices"
          /\ UNCHANGED << err, verifyVars, snapshotState >>
    /\ UNCHANGED << flags, restoreCalls, fnVars, cluster, scaleVars, scaledDeployments, defers,
                    tunnelVars, exitCode, scaleUpCalls, log >>

\* esClient.ListIndices("*"), filterSTSIndices and the dropAllIndices branch.
ListIndices ==
    /\ pc = "listIndices"
    /\ \/ /\ calls' = Append(calls, Call("ListIndices", "", <<>>, 0, FALSE))
          /\ Return(Wrap(Err("failed to list indices"), ApiError))
       \/ \E allIndices \in Listings :
          /\ calls' = Append(calls, Call("ListIndices", "", <<>>, 0, TRUE))
          /\ stsIndices' = filterSTSIndices(allIndices, IndexPrefix, DatastreamIndexPrefix)
          /\ pc' = IF dropAllIndices THEN "deleteIndices" ELSE "getSnapshot"
          /\ UNCHANGED << err, verifyVars, snapshotState >>
    /\ UNCHANGED << flags, restoreCalls, fnVars, cluster, scaleVars, scaledDeployments, defers,
                    tunnelVars, exitCode, scaleUpCalls, log >>

\* ------------------------------------------------------------ confirmation
\* bufio.Reader.ReadString('\n'): the line up to and including the first
\* newline, or <<>> when the input ends before one (an error).
RECURSIVE ReadString(_)
ReadString(input) ==
    IF input = <<>> THEN <<>>
    ELSE IF Head(input) = "\n" THEN <<"\n">>
    ELSE LET rest == ReadString(Tail(input))
         IN  IF rest = <<>> THEN <<>> ELSE <<Head(input)>> \o rest

\* strings.ToLower on the letters of the model's alphabet.
LowerChar(c) ==
    CASE c = "Y" -> "y"
      [] c = "E" -> "e"
      [] c = "S" -> "s"
      [] c = "N" -> "n"
      [] c = "O" -> "o"
      [] OTHER -> c
ToLower(s) == [k \in DOMAIN s |-> LowerChar(s[k])]

\* strings.TrimSpace
IsSpace(c) == c \in {" ", "\n", "\t", "\r"}
RECURSIVE TrimLeft(_)
TrimLeft(s) == IF s # <<>> /\ IsSpace(Head(s)) THEN TrimLeft(Tail(s)) ELSE s
RECURSIVE TrimRight(_)
TrimRight(s) ==
    IF s # <<>> /\ IsSpace(s[Len(s)]) THEN TrimRight(SubSeq(s, 1, Len(s) - 1)) ELSE s
TrimSpace(s) == TrimRight(TrimLeft(s))

\* Affirmative comparing the line read without trimming it.
Affirmative_NoTrim(response) ==
    LET r == ToLower(response)
    IN  r = <<"y", "e", "s">> \/ r = <<"y">>

\* The test of confirmDeletion on the line read.
Affirmative(response) ==
    LET r == TrimSpace(ToLower(response))
    IN  r = <<"y", "e", "s">> \/ r = <<"y">>

\* confirmDeletion as a function of what standard input holds: the error it
\* returns.
confirmDeletion(stdin) ==
    LET response == ReadString(stdin)
    IN  IF response = <<>>
        THEN Wrap(Err("failed to read confirmation"), ApiError)
        ELSE IF ~Affirmative(response)
        THEN << Err("restore cancelled by user") >>
        ELSE <<>>

\* -------------------------------------------------------------- deleteIndices
\* DeleteIndicesEntry prompting only when the confirmation is to be skipped.
DeleteIndicesEntry_InvertedSkip ==
    /\ pc = "deleteIndices"
    /\ log' = Println(log)
    /\ pc' = IF Len(stsIndices) = 0 THEN "getSnapshot"
             ELSE IF skipConfirmation THEN "confirm"
             ELSE "rollover"
    /\ UNCHANGED << flags, restoreCalls, fnVars, cluster, scaleVars, scaledDeployments, defers,
                    tunnelVars, esVars, err, exitCode, calls, scaleUpCalls >>

\* Entry of deleteIndices: nothing to delete, or on to the prompt.
DeleteIndicesEntry ==
    /\ pc = "deleteIndices"
    /\ log' = Println(log)
    /\ pc' = IF Len(stsIndices) = 0 THEN "getSnapshot"
             ELSE IF ~skipConfirmation THEN "confirm"
             ELSE "rollover"
    /\ UNCHANGED << flags, restoreCalls, fnVars, cluster, scaleVars, scaledDeployments, defers,
                    tunnelVars, esVars, err, exitCode, calls, scaleUpCalls >>

\* confirmDeletion
ConfirmDeletion ==
    /\ pc = "confirm"
    /\ \E input \in StdinLines :
         LET response == ReadString(input)
         IN  IF response = <<>>
             THEN /\ calls' = Append(calls, Call("ReadStdin", "", input, 0, FALSE))
                  /\ Return(Wrap(Err("failed to read confirmation"), ApiError))
             ELSE IF ~Affirmative(response)
             THEN /\ calls' = Append(calls, Call("Confirm", "", input, 0, FALSE))
                  /\ Return(<< Err("restore cancelled by user") >>)
             ELSE /\ calls' = Append(calls, Call("Confirm", "", input, 0, TRUE))
                  /\ pc' = "rollover"
                  /\ UNCHANGED << err, esVars >>
    /\ UNCHANGED << flags, restoreCalls, fnVars, cluster, scaleVars, scaledDeployments, defers,
                    tunnelVars, exitCode, scaleUpCalls, log >>

\* RolloverDatastream going on to the deletions after a failed rollover.
RolloverDatastream_IgnoreError ==
    /\ pc = "rollover"
    /\ IF hasDatastreamIndices(stsIndices, DatastreamIndexPrefix)
       THEN \/ /\ calls' = Append(calls, Call("RolloverDatastream", "", <<>>, 0, FALSE))
               /\ pc' = "deleteIndex"
               /\ i' = 1
               /\ UNCHANGED << err, esVars >>
            \/ /\ calls' = Append(calls, Call("RolloverDatastream", "", <<>>, 0, TRUE))
               /\ pc' = "deleteIndex"
               /\ i' = 1
               /\ UNCHANGED << err, esVars >>
       ELSE /\ pc' = "deleteIndex"
            /\ i' = 1
            /\ UNCHANGED << err, esVars, calls >>
    /\ UNCHANGED << flags, restoreCalls, fnVars, cluster, items, captured, subErr, scaledDeployments,
                    defers, tunnelVars, exitCode, scaleUpCalls, log >>

\* The data-stream rollover of deleteIndices.
RolloverDatastream ==
    /\ pc = "rollover"
    /\ IF hasDatastreamIndices(stsIndices, DatastreamIndexPrefix)
       THEN \/ /\ calls' = Append(calls, Call("RolloverDatastream", "", <<>>, 0, FALSE))
               /\ Return(Wrap(Err("failed to rollover datastream"), ApiError))
               /\ UNCHANGED i
            \/ /\ calls' = Append(calls, Call("RolloverDatastream", "", <<>>, 0, TRUE))
               /\ pc' = "deleteIndex"
               /\ i' = 1
               /\ UNCHANGED << err, esVars >>
       ELSE /\ pc' = "deleteIndex"
            /\ i' = 1
            /\ UNCHANGED << err, esVars, calls >>
    /\ UNCHANGED << flags, restoreCalls, fnVars, cluster, items, captured, subErr, scaledDeployments,
                    defers, tunnelVars, exitCode, scaleUpCalls, log >>

\* The answers IndexExists gives without an error.
Present == "present"
Absent == "absent"

\* DeleteIndex going on to the verification after a rejected delete.
DeleteIndex_IgnoreError ==
    /\ pc = "deleteIndex"
    /\ LET index == stsIndices[i]
       IN  /\ attempt' = 0
           /\ answers' = <<>>
           /\ sleeps' = 0
           /\ \/ /\ calls' = Append(calls, Call("DeleteIndex", "", index, 0, FALSE))
                 /\ delErr' = <<>>
                 /\ pc' = "verify"
              \/ /\ calls' = Append(calls, Call("DeleteIndex", "", index, 0, TRUE))
                 /\ delErr' = <<>>
                 /\ pc' = "verify"
    /\ UNCHANGED << flags, restoreCalls, fnVars, cluster, scaleVars, scaledDeployments, defers,
                    tunnelVars, stsIndices, snapshotState, err, exitCode,
                    scaleUpCalls, log >>

\* DeleteIndex taking its target from the indices as they are at the time of
\* the call, where a backing index may have appeared since the listing.
DeleteIndex_CurrentIndices ==
    /\ pc = "deleteIndex"
    /\ \E index \in {stsIndices[i], <<"s", "_", "k", "-", "1">>} :
           /\ attempt' = 0
           /\ answers' = <<>>
           /\ sleeps' = 0
           /\ \/ /\ calls' = Append(calls, Call("DeleteIndex", "", index, 0, FALSE))
                 /\ delErr' = Wrap(ErrIdx("failed to delete index", index), ApiError)
                 /\ pc' = "verifyReturn"
              \/ /\ calls' = Append(calls, Call("DeleteIndex", "", index, 0, TRUE))
                 /\ delErr' = <<>>
                 /\ pc' = "verify"
    /\ UNCHANGED << flags, restoreCalls, fnVars, cluster, scaleVars, scaledDeployments, defers,
                    tunnelVars, stsIndices, snapshotState, err, exitCode,
                    scaleUpCalls, log >>

\* deleteIndexWithVerification: the delete call.  A rejected delete returns
\* at once.
DeleteIndex ==
    /\ pc = "deleteIndex"
    /\ LET index == stsIndices[i]
       IN  /\ attempt' = 0
           /\ answers' = <<>>
           /\ sleeps' = 0
           /\ \/ /\ calls' = Append(calls, Call("DeleteIndex", "", index, 0, FALSE))
                 /\ delErr' = Wrap(ErrIdx("failed to delete index", index), ApiError)
                 /\ pc' = "verifyReturn"
              \/ /\ calls' = Append(calls, Call("DeleteIndex", "", index, 0, TRUE))
                 /\ delErr' = <<>>
                 /\ pc' = "verify"
    /\ UNCHANGED << flags, restoreCalls, fnVars, cluster, scaleVars, scaledDeployments, defers,
                    tunnelVars, stsIndices, snapshotState, err, exitCode,
                    scaleUpCalls, log >>

\* VerifyDeletion sleeping before each existence check instead of after it.
VerifyDeletion_SleepFirst ==
    /\ pc = "verify"
    /\ attempt < defaultMaxIndexDeleteAttempts
    /\ LET index == stsIndices[i]
       IN  \/ /\ calls' = Append(calls, Call("IndexExists", "", index, 0, FALSE))
              /\ answers' = Append(answers, "error")
              /\ delErr' = Wrap(Err("failed to check index existence"), ApiError)
              /\ pc' = "verifyReturn"
              /\ sleeps' = sleeps + 1
              /\ UNCHANGED attempt
           \/ /\ answers' = Append(answers, Absent)
              /\ delErr' = <<>>
              /\ pc' = "verifyReturn"
              /\ sleeps' = sleeps + 1
              /\ UNCHANGED << attempt, calls >>
           \/ /\ answers' = Append(answers, Present)
              /\ IF attempt >= defaultMaxIndexDeleteAttempts - 1
                 THEN /\ calls' = Append(calls, Call("VerifyTimeout", "", index, 0, FALSE))
                      /\ delErr' = << ErrIdx("timeout waiting for index to be deleted", index) >>
                      /\ pc' = "verifyReturn"
                      /\ sleeps' = sleeps + 1
                      /\ UNCHANGED attempt
                 ELSE /\ sleeps' = sleeps + 1
                      /\ attempt' = attempt + 1
                      /\ UNCHANGED << pc, delErr, calls >>
    /\ UNCHANGED << flags, restoreCalls, fnVars, cluster, scaleVars, scaledDeployments, defers,
                    tunnelVars, stsIndices, snapshotState, err, exitCode,
                    scaleUpCalls, log >>

\* VerifyDeletion giving up one attempt early.
VerifyDeletion_OffByOne ==
    /\ pc = "verify"
    /\ attempt < defaultMaxIndexDeleteAttempts
    /\ LET index == stsIndices[i]
       IN  \/ /\ calls' = Append(calls, Call("IndexExists", "", index, 0, FALSE))
              /\ answers' = Append(answers, "error")
              /\ delErr' = Wrap(Err("failed to check index existence"), ApiError)
              /\ pc' = "verifyReturn"
              /\ UNCHANGED << attempt, sleeps >>
           \/ /\ answers' = Append(answers, Absent)
              /\ delErr' = <<>>
              /\ pc' = "verifyReturn"
              /\ UNCHANGED << attempt, sleeps, calls >>
           \/ /\ answers' = Append(answers, Present)
              /\ IF attempt >= defaultMaxIndexDeleteAttempts - 2
                 THEN /\ calls' = Append(calls, Call("VerifyTimeout", "", index, 0, FALSE))
                      /\ delErr' = << ErrIdx("timeout waiting for index to be deleted", index) >>
                      /\ pc' = "verifyReturn"
                      /\ UNCHANGED << attempt, sleeps >>
                 ELSE /\ sleeps' = sleeps + 1
                      /\ attempt' = attempt + 1
                      /\ UNCHANGED << pc, delErr, calls >>
    /\ UNCHANGED << flags, restoreCalls, fnVars, cluster, scaleVars, scaledDeployments, defers,
                    tunnelVars, stsIndices, snapshotState, err, exitCode,
                    scaleUpCalls, log >>

\* VerifyDeletion falling out of the loop after the last attempt and
\* returning nil.
VerifyDeletion_NoTimeout ==
    /\ pc = "verify"
    /\ attempt < defaultMaxIndexDeleteAttempts
    /\ LET index == stsIndices[i]
       IN  \/ /\ calls' = Append(calls, Call("IndexExists", "", index, 0, FALSE))
              /\ answers' = Append(answers, "error")
              /\ delErr' = Wrap(Err("failed to check index existence"), ApiError)
              /\ pc' = "verifyReturn"
              /\ UNCHANGED << attempt, sleeps >>
           \/ /\ answers' = Append(answers, Absent)
              /\ delErr' = <<>>
              /\ pc' = "verifyReturn"
              /\ UNCHANGED << attempt, sleeps, calls >>
           \/ /\ answers' = Append(answers, Present)
              /\ IF attempt >= defaultMaxIndexDeleteAttempts - 1
                 THEN /\ delErr' = <<>>
                      /\ pc' = "verifyReturn"
                      /\ UNCHANGED << attempt, sleeps, calls >>
                 ELSE /\ sleeps' = sleeps + 1
                      /\ attempt' = attempt + 1
                      /\ UNCHANGED << pc, delErr, calls >>
    /\ UNCHANGED << flags, restoreCalls, fnVars, cluster, scaleVars, scaledDeployments, defers,
                    tunnelVars, stsIndices, snapshotState, err, exitCode,
                    scaleUpCalls, log >>

\* VerifyDeletion allowing one existence check more before it gives up.
VerifyDeletion_ExtraCheck ==
    /\ pc = "verify"
    /\ attempt < defaultMaxIndexDeleteAttempts + 1
    /\ LET index == stsIndices[i]
       IN  \/ /\ calls' = Append(calls, Call("IndexExists", "", index, 0, FALSE))
              /\ answers' = Append(answers, "error")
              /\ delErr' = Wrap(Err("failed to check index existence"), ApiError)
              /\ pc' = "verifyReturn"
              /\ UNCHANGED << attempt, sleeps >>
           \/ /\ answers' = Append(answers, Absent)
              /\ delErr' = <<>>
              /\ pc' = "verifyReturn"
              /\ UNCHANGED << attempt, sleeps, calls >>
           \/ /\ answers' = Append(answers, Present)
              /\ IF attempt >= defaultMaxIndexDeleteAttempts
                 THEN /\ calls' = Append(calls, Call("VerifyTimeout", "", index, 0, FALSE))
                      /\ delErr' = << ErrIdx("timeout waiting for index to be deleted", index) >>
                      /\ pc' = "verifyReturn"
                      /\ UNCHANGED << attempt, sleeps >>
                 ELSE /\ sleeps' = sleeps + 1
                      /\ attempt' = attempt + 1
                      /\ UNCHANGED << pc, delErr, calls >>
    /\ UNCHANGED << flags, restoreCalls, fnVars, cluster, scaleVars, scaledDeployments, defers,
                    tunnelVars, stsIndices, snapshotState, err, exitCode,
                    scaleUpCalls, log >>

\* deleteIndexWithVerification: one iteration of the verification loop.
VerifyDeletion ==
    /\ pc = "verify"
    /\ attempt < defaultMaxIndexDeleteAttempts
    /\ LET index == stsIndices[i]
       IN  \/ /\ calls' = Append(calls, Call("IndexExists", "", index, 0, FALSE))
              /\ answers' = Append(answers, "error")
              /\ delErr' = Wrap(Err("failed to check index existence"), ApiError)
              /\ pc' = "verifyReturn"
              /\ UNCHANGED << attempt, sleeps >>
           \/ /\ answers' = Append(answers, Absent)
              /\ delErr' = <<>>
              /\ pc' = "verifyReturn"
              /\ UNCHANGED << attempt, sleeps, calls >>
           \/ /\ answers' = Append(answers, Present)
              /\ IF attempt >= defaultMaxIndexDeleteAttempts - 1
                 THEN /\ calls' = Append(calls, Call("VerifyTimeout", "", index, 0, FALSE))
                      /\ delErr' = << ErrIdx("timeout waiting for index to be deleted", index) >>
                      /\ pc' = "verifyReturn"
                      /\ UNCHANGED << attempt, sleeps >>
                 ELSE /\ sleeps' = sleeps + 1
                      /\ attempt' = attempt + 1
                      /\ UNCHANGED << pc, delErr, calls >>
    /\ UNCHANGED << flags, restoreCalls, fnVars, cluster, scaleVars, scaledDeployments, defers,
                    tunnelVars, stsIndices, snapshotState, err, exitCode,
                    scaleUpCalls, log >>

\* DeleteIndicesNext going on to the next index after a failed deletion.
DeleteIndicesNext_IgnoreError ==
    /\ pc = "verifyReturn"
    /\ IF delErr # <<>> /\ i = Len(stsIndices)
       THEN /\ Return(delErr)
            /\ UNCHANGED i
       ELSE /\ IF i = Len(stsIndices)
               THEN pc' = "getSnapshot" /\ i' = i
               ELSE pc' = "deleteIndex" /\ i' = i + 1
            /\ attempt' = 0
            /\ answers' = <<>>
            /\ sleeps' = 0
            /\ delErr' = <<>>
            /\ UNCHANGED << err, stsIndices, snapshotState >>
    /\ UNCHANGED << flags, restoreCalls, fnVars, cluster, items, captured, subErr, scaledDeployments,
                    defers, tunnelVars, exitCode, calls, scaleUpCalls, log >>

\* The loop of deleteIndices on the return of deleteIndexWithVerification:
\* its error ends deleteIndices and runRestore, otherwise the next index is
\* deleted, and after the last one the restore begins.  The locals of
\* deleteIndexWithVerification are gone.
DeleteIndicesNext ==
    /\ pc = "verifyReturn"
    /\ IF delErr # <<>>
       THEN /\ Return(delErr)
            /\ UNCHANGED i
       ELSE /\ IF i = Len(stsIndices)
               THEN pc' = "getSnapshot" /\ i' = i
               ELSE pc' = "deleteIndex" /\ i' = i + 1
            /\ attempt' = 0
            /\ answers' = <<>>
            /\ sleeps' = 0
            /\ delErr' = <<>>
            /\ UNCHANGED << err, stsIndices, snapshotState >>
    /\ UNCHANGED << flags, restoreCalls, fnVars, cluster, items, captured, subErr, scaledDeployments,
                    defers, tunnelVars, exitCode, calls, scaleUpCalls, log >>

\* -------------------------------------------------------- runRestore: restore
SnapshotStates == {"SUCCESS", "FAILED"}

\* esClient.GetSnapshot
GetSnapshot ==
    /\ pc = "getSnapshot"
    /\ \/ /\ calls' = Append(calls, Call("GetSnapshot", "", <<>>, 0, FALSE))
          /\ Return(Wrap(Err("failed to get snapshot details"), ApiError))
       \/ \E state \in SnapshotStates :
          /\ calls' = Append(calls, Call("GetSnapshot", "", <<>>, 0, TRUE))
          /\ snapshotState' = state
          /\ pc' = "restore"
          /\ UNCHANGED << err, stsIndices, verifyVars >>
    /\ UNCHANGED << flags, restoreCalls, fnVars, cluster, scaleVars, scaledDeployments, defers,
                    tunnelVars, exitCode, scaleUpCalls, log >>

\* The arguments of one RestoreSnapshot invocation.
RestoreArgs(repository, name, indicesPattern, waitForCompletion) ==
    [ repository |-> repository, snapshotName |-> name,
      indicesPattern |-> indicesPattern, waitForCompletion |-> waitForCompletion ]

\* RestoreSnapshot not waiting for the restore to complete.
RestoreSnapshot_NoWait ==
    /\ pc = "restore"
    /\ restoreCalls' = Append(restoreCalls,
                              RestoreArgs(Repository, snapshotName, IndicesPattern, FALSE))
    /\ \/ /\ calls' = Append(calls, Call("RestoreSnapshot", "", <<>>, 0, FALSE))
          /\ Return(Wrap(Err("failed to restore snapshot"), ApiError))
          /\ UNCHANGED log
       \/ /\ calls' = Append(calls, Call("RestoreSnapshot", "", <<>>, 0, TRUE))
          /\ log' = Successf(Println(log), "Restore completed successfully")
          /\ Return(<<>>)
    /\ UNCHANGED << flags, fnVars, cluster, scaleVars, scaledDeployments, defers,
                    tunnelVars, exitCode, scaleUpCalls >>

\* esClient.RestoreSnapshot(repository, snapshotName, IndicesPattern, true),
\* whatever the State of the snapshot fetched.
RestoreSnapshot ==
    /\ pc = "restore"
    /\ restoreCalls' = Append(restoreCalls,
                              RestoreArgs(Repository, snapshotName, IndicesPattern, TRUE))
    /\ \/ /\ calls' = Append(calls, Call("RestoreSnapshot", "", <<>>, 0, FALSE))
          /\ Return(Wrap(Err("failed to restore snapshot"), ApiError))
          /\ UNCHANGED log
       \/ /\ calls' = Append(calls, Call("RestoreSnapshot", "", <<>>, 0, TRUE))
          /\ log' = Successf(Println(log), "Restore completed successfully")
          /\ Return(<<>>)
    /\ UNCHANGED << flags, fnVars, cluster, scaleVars, scaledDeployments, defers,
                    tunnelVars, exitCode, scaleUpCalls >>

\* ------------------------------------------------------- deferred functions
\* RunDefers calling ScaleUpDeployments whatever the length of scaledDeployments.
RunDefers_NoLenGuard ==
    /\ pc = "defers"
    /\ IF defers = <<>>
       THEN /\ pc' = "returned"
            /\ UNCHANGED << defers, tunnelVars, i, scaleUpCalls, log >>
       ELSE IF defers[Len(defers)] = "closeStop"
       THEN /\ stopChan' = "closed"
            /\ tunnel' = "stopped"
            /\ defers' = SubSeq(defers, 1, Len(defers) - 1)
            /\ UNCHANGED << pc, i, scaleUpCalls, log >>
       ELSE /\ log' = Infof(Println(log), "Scaling up deployments back to original replica counts...")
            /\ scaleUpCalls' = Append(scaleUpCalls, scaledDeployments)
            /\ i' = 1
            /\ pc' = IF Len(scaledDeployments) > 0 THEN "scaleUpGet" ELSE "scaleUpReturn"
            /\ UNCHANGED << defers, tunnelVars >>
    /\ UNCHANGED << flags, restoreCalls, fnVars, cluster, items, captured, subErr, scaledDeployments,
                    esVars, err, exitCode, calls >>

\* The deferred functions of runRestore run last registered first: the close
\* of the stop channel, then the scale-up, which calls ScaleUpDeployments
\* only when scaledDeployments is not empty.
RunDefers ==
    /\ pc = "defers"
    /\ IF defers = <<>>
       THEN /\ pc' = "returned"
            /\ UNCHANGED << defers, tunnelVars, i, scaleUpCalls, log >>
       ELSE IF defers[Len(defers)] = "closeStop"
       THEN /\ stopChan' = "closed"
            /\ tunnel' = "stopped"
            /\ defers' = SubSeq(defers, 1, Len(defers) - 1)
            /\ UNCHANGED << pc, i, scaleUpCalls, log >>
       ELSE IF Len(scaledDeployments) > 0
       THEN /\ log' = Infof(Println(log), "Scaling up deployments back to original replica counts...")
            /\ scaleUpCalls' = Append(scaleUpCalls, scaledDeployments)
            /\ i' = 1
            /\ pc' = "scaleUpGet"
            /\ UNCHANGED << defers, tunnelVars >>
       ELSE /\ defers' = SubSeq(defers, 1, Len(defers) - 1)
            /\ UNCHANGED << pc, tunnelVars, i, scaleUpCalls, log >>
    /\ UNCHANGED << flags, restoreCalls, fnVars, cluster, items, captured, subErr, scaledDeployments,
                    esVars, err, exitCode, calls >>

\* --------------------------------------------- k8s.Client.ScaleUpDeployments
\* The fetch of the deployment of snapshot i.
ScaleUpGet ==
    /\ pc = "scaleUpGet"
    /\ LET scale == scaledDeployments[i]
       IN  \/ /\ calls' = Append(calls, Call("GetDeployment", scale.Name, <<>>, 0, FALSE))
              /\ subErr' = Wrap(ErrDep("failed to get deployment", scale.Name), ApiError)
              /\ pc' = "scaleUpReturn"
           \/ /\ calls' = Append(calls, Call("GetDeployment", scale.Name, <<>>, 0, TRUE))
              /\ subErr' = <<>>
              /\ pc' = "scaleUpUpdate"
    /\ UNCHANGED << flags, restoreCalls, fnVars, cluster, items, i, captured, scaledDeployments, defers,
                    tunnelVars, esVars, err, exitCode, scaleUpCalls, log >>

\* ScaleUpUpdate writing the count of the first snapshot to every deployment.
ScaleUpUpdate_FirstReplicas ==
    /\ pc = "scaleUpUpdate"
    /\ LET scale == scaledDeployments[i]
       IN  \/ /\ calls' = Append(calls, Call("UpdateDeployment", scale.Name, <<>>, scale.Replicas, FALSE))
              /\ subErr' = Wrap(ErrDep("failed to scale up deployment", scale.Name), ApiError)
              /\ pc' = "scaleUpReturn"
              /\ UNCHANGED << cluster, i >>
           \/ /\ calls' = Append(calls, Call("UpdateDeployment", scale.Name, <<>>, scale.Replicas, TRUE))
              /\ cluster' = [cluster EXCEPT ![scale.Name].replicas = << scaledDeployments[1].Replicas >>]
              /\ subErr' = <<>>
              /\ IF i = Len(scaledDeployments)
                 THEN pc' = "scaleUpReturn" /\ i' = i
                 ELSE pc' = "scaleUpGet" /\ i' = i + 1
    /\ UNCHANGED << flags, restoreCalls, fnVars, items, captured, scaledDeployments, defers,
                    tunnelVars, esVars, err, exitCode, scaleUpCalls, log >>

\* ScaleUpUpdate sending the definition as it was at the pause, with the
\* original count.
ScaleUpUpdate_StaleDefinition ==
    /\ pc = "scaleUpUpdate"
    /\ LET scale == scaledDeployments[i]
       IN  \/ /\ calls' = Append(calls, Call("UpdateDeployment", scale.Name, <<>>, scale.Replicas, FALSE))
              /\ subErr' = Wrap(ErrDep("failed to scale up deployment", scale.Name), ApiError)
              /\ pc' = "scaleUpReturn"
              /\ UNCHANGED << cluster, i >>
           \/ /\ calls' = Append(calls, Call("UpdateDeployment", scale.Name, <<>>, scale.Replicas, TRUE))
              /\ cluster' = [cluster EXCEPT ![scale.Name] =
                                [matches |-> initialCluster[scale.Name].matches,
                                 replicas |-> << scale.Replicas >>]]
              /\ subErr' = <<>>
              /\ IF i = Len(scaledDeployments)
                 THEN pc' = "scaleUpReturn" /\ i' = i
                 ELSE pc' = "scaleUpGet" /\ i' = i + 1
    /\ UNCHANGED << flags, restoreCalls, fnVars, items, captured, scaledDeployments, defers,
                    tunnelVars, esVars, err, exitCode, scaleUpCalls, log >>

\* The update of the deployment of snapshot i to its original count, and the
\* step to the next snapshot.
ScaleUpUpdate ==
    /\ pc = "scaleUpUpdate"
    /\ LET scale == scaledDeployments[i]
       IN  \/ /\ calls' = Append(calls, Call("UpdateDeployment", scale.Name, <<>>, scale.Replicas, FALSE))
              /\ subErr' = Wrap(ErrDep("failed to scale up deployment", scale.Name), ApiError)
              /\ pc' = "scaleUpReturn"
              /\ UNCHANGED << cluster, i >>
           \/ /\ calls' = Append(calls, Call("UpdateDeployment", scale.Name, <<>>, scale.Replicas, TRUE))
              /\ cluster' = [cluster EXCEPT ![scale.Name].replicas = << scale.Replicas >>]
              /\ subErr' = <<>>
              /\ IF i = Len(scaledDeployments)
                 THEN pc' = "scaleUpReturn" /\ i' = i
                 ELSE pc' = "scaleUpGet" /\ i' = i + 1
    /\ UNCHANGED << flags, restoreCalls, fnVars, items, captured, scaledDeployments, defers,
                    tunnelVars, esVars, err, exitCode, scaleUpCalls, log >>

\* ScaleUpReturn making the scale-up error the error of the run.
ScaleUpReturn_Escalate ==
    /\ pc = "scaleUpReturn"
    /\ log' = IF subErr # <<>>
              THEN Warningf(log, "Failed to scale up deployments", subErr)
              ELSE Successf(log, "Scaled up deployment(s) successfully")
    /\ defers' = SubSeq(defers, 1, Len(defers) - 1)
    /\ pc' = "defers"
    /\ err' = IF subErr # <<>> /\ err = <<>> THEN subErr ELSE err
    /\ UNCHANGED << flags, restoreCalls, fnVars, cluster, scaleVars, scaledDeployments, tunnelVars,
                    esVars, exitCode, calls, scaleUpCalls >>

\* The rest of the deferred scale-up: a warning on error, the success lines
\* otherwise.
ScaleUpReturn ==
    /\ pc = "scaleUpReturn"
    /\ log' = IF subErr # <<>>
              THEN Warningf(log, "Failed to scale up deployments", subErr)
              ELSE Successf(log, "Scaled up deployment(s) successfully")
    /\ defers' = SubSeq(defers, 1, Len(defers) - 1)
    /\ pc' = "defers"
    /\ UNCHANGED << flags, restoreCalls, fnVars, cluster, scaleVars, scaledDeployments, tunnelVars,
                    esVars, err, exitCode, calls, scaleUpCalls >>

\* -------------------------------------------------------------- restoreCmd
\* RestoreCmdRun printing the error without the exit status 1.
RestoreCmdRun_NoExit ==
    /\ pc = "returned"
    /\ pc' = "exited"
    /\ exitCode' = 0
    /\ log' = IF err # <<>> THEN Append(log, LogLine("stderr", "error", err)) ELSE log
    /\ UNCHANGED << flags, restoreCalls, fnVars, cluster, scaleVars, scaledDeployments, defers,
                    tunnelVars, esVars, err, calls, scaleUpCalls >>

\* The Run function of the command: exit status 1 and the error on stderr
\* when runRestore returned an error.
RestoreCmdRun ==
    /\ pc = "returned"
    /\ pc' = "exited"
    /\ exitCode' = IF err # <<>> THEN 1 ELSE 0
    /\ log' = IF err # <<>> THEN Append(log, LogLine("stderr", "error", err)) ELSE log
    /\ UNCHANGED << flags, restoreCalls, fnVars, cluster, scaleVars, scaledDeployments, defers,
                    tunnelVars, esVars, err, calls, scaleUpCalls >>

\* ---------------------------------------------------------- specification
Next ==
    \/ NewK8sClient
    \/ LoadConfig
    \/ ScaleDownList
    \/ ScaleDownStep
    \/ ScaleDownWrapper
    \/ PortForwardService
    \/ ForwardPortsReady
    \/ ForwardPortsFail
    \/ WaitReady
    \/ NewESClient
    \/ ListIndices
    \/ DeleteIndicesEntry
    \/ ConfirmDeletion
    \/ RolloverDatastream
    \/ DeleteIndex
    \/ VerifyDeletion
    \/ DeleteIndicesNext
    \/ GetSnapshot
    \/ RestoreSnapshot
    \/ RunDefers
    \/ ScaleUpGet
    \/ ScaleUpUpdate
    \/ ScaleUpReturn
    \/ RestoreCmdRun

Spec == Init /\ [][Next]_vars

\* ------------------------------------------------------ trace vocabulary
\* The run has returned.
Ended == pc \in {"returned", "exited"}

\* Positions of the trace holding one of the operations ops.
Ops(ops) == { k \in DOMAIN calls : calls[k].op \in ops }

\* The first call of the resume step: ScaleUpDeployments begins with a fetch.
ResumeStart ==
    IF Ops({"GetDeployment"}) = {} THEN Len(calls) + 1
    ELSE CHOOSE k \in Ops({"GetDeployment"}) : \A j \in Ops({"GetDeployment"}) : k <= j

\* Failures of the phases before the resume step, and failures of the
\* resume step.
FatalCalls ==
    LET start == ResumeStart
    IN  { k \in DOMAIN calls : ~calls[k].ok /\ k < start }
ResumeFailures ==
    LET start == ResumeStart
    IN  { k \in DOMAIN calls : ~calls[k].ok /\ k >= start }

\* The pause failed: the listing or an update to zero was rejected.
PauseFailed ==
    \E k \in FatalCalls : calls[k].op \in {"ListDeployments", "UpdateDeployment"}

\* Messages of the errors of the resume step.
ResumeMsgs == {"failed to get deployment", "failed to scale up deployment"}

\* C1: when the pause captured at least one snapshot, the run has called
\* ScaleUpDeployments exactly once, with exactly the captured snapshots, by
\* the time it ends, whichever phase failed.
C1_ResumeAttemptedOnce ==
    (Ended /\ captured # <<>>) => scaleUpCalls = << captured >>

\* C2: a pause that fails after capturing snapshots is still followed by a
\* resume with the snapshots captured so far; only a pause that captured
\* nothing fails the run without a resume.
C2_PartialPauseResumed ==
    (Ended /\ PauseFailed) =>
        /\ err # <<>>
        /\ IF captured # <<>>
           THEN scaleUpCalls = << captured >>
           ELSE scaleUpCalls = <<>>

\* C3: when ScaleUpDeployments returns, it has fetched the deployment of every
\* snapshot, and its error names every deployment whose fetch or update
\* failed.
C3_ResumeAttemptsEvery ==
    pc = "scaleUpReturn" =>
        /\ \A k \in DOMAIN scaledDeployments :
             \E j \in Ops({"GetDeployment"}) : calls[j].dep = scaledDeployments[k].Name
        /\ \A j \in ResumeFailures :
             \E e \in Range(subErr) : e.msg \in ResumeMsgs /\ e.dep = calls[j].dep

\* C4: when the pause succeeded and no call of the resume failed, every
\* deployment has at the end of the run the replica count it had before the
\* run, whether the run succeeded or failed.
C4_PauseResumeIdentity ==
    (Ended /\ ~PauseFailed /\ ResumeFailures = {}) =>
        \A d \in Range(DeploymentNames) :
            OriginalReplicas(cluster[d].replicas)
                = OriginalReplicas(initialCluster[d].replicas)

C4_Witness ==
    /\ pc = "exited"
    /\ err # <<>>
    /\ err[1].msg = "failed to restore snapshot"
    /\ captured = << [Name |-> "A", Replicas |-> 1], [Name |-> "B", Replicas |-> 1] >>
    /\ Cardinality(Ops({"UpdateDeployment"})) = 4
    /\ cluster["A"].replicas = <<1>>
    /\ cluster["B"].replicas = <<1>>

\* C5: when no deployment matches the selector, ScaleUpDeployments is never
\* called and no deployment is fetched or updated, and a run without a fatal
\* error still restores the snapshot and exits with status 0.
NoMatch == \A d \in Range(DeploymentNames) : ~cluster[d].matches

C5_NoMatchNoResume ==
    NoMatch =>
        /\ scaleUpCalls = <<>>
        /\ Ops({"GetDeployment", "UpdateDeployment"}) = {}
        /\ (pc = "exited" /\ FatalCalls = {}) =>
              /\ \E k \in Ops({"RestoreSnapshot"}) : calls[k].ok
              /\ exitCode = 0

C5_Witness ==
    /\ NoMatch
    /\ pc = "exited"
    /\ exitCode = 0
    /\ Ops({"DeleteIndex"}) # {}
    /\ Ops({"RestoreSnapshot"}) # {}

\* C6: a rollover or delete call is only made with --yes or after an
\* affirmative answer; after a declining answer the run fails with the
\* cancellation error, makes no rollover, delete or restore call, and still
\* resumes the paused deployments.
IsYes(input) == input \in { <<"y", "\n">>, <<" ", "Y", "E", "S", " ", "\n">> }
Declined == \E k \in Ops({"Confirm"}) : ~IsYes(calls[k].idx)

C6_DestructionNeedsConsent ==
    /\ \A k \in Ops({"RolloverDatastream", "DeleteIndex"}) :
         \/ skipConfirmation
         \/ \E j \in Ops({"Confirm"}) : j < k /\ IsYes(calls[j].idx)
    /\ Declined =>
         /\ Ops({"RolloverDatastream", "DeleteIndex", "RestoreSnapshot"}) = {}
         /\ pc \notin {"rollover", "deleteIndex", "verify", "verifyReturn",
                       "getSnapshot", "restore"}
         /\ err = << Err("restore cancelled by user") >>
         /\ pc = "exited" =>
               /\ exitCode = 1
               /\ captured # <<>> => scaleUpCalls = << captured >>

C6_Witness ==
    /\ Declined
    /\ pc = "exited"
    /\ exitCode = 1
    /\ Len(captured) = 2
    /\ scaleUpCalls = << captured >>
    /\ Ops({"DeleteIndex"}) = {}

\* C7: the prompt, the rollover and the deletes happen only in a run with
\* --drop-all-indices whose managed index set is not empty; in every other
\* run the index listing is followed by the snapshot lookup of the restore
\* with no call in between.
DestructiveOps ==
    {"Confirm", "ReadStdin", "RolloverDatastream", "DeleteIndex", "IndexExists",
     "VerifyTimeout"}

C7_DestructiveOnlyOnRequest ==
    [][ /\ ( \/ pc' \in {"confirm", "rollover", "deleteIndex", "verify",
                        "verifyReturn"}
             \/ /\ Len(calls') > Len(calls)
                /\ calls'[Len(calls')].op \in DestructiveOps )
           => (dropAllIndices /\ stsIndices # <<>>)
        /\ (pc = "listIndices" /\ pc' # "defers"
              /\ ~(dropAllIndices /\ stsIndices' # <<>>))
           => pc' \in {"deleteIndices", "getSnapshot"}
        /\ (pc = "deleteIndices" /\ ~(dropAllIndices /\ stsIndices # <<>>))
           => (pc' = "getSnapshot" /\ calls' = calls)
      ]_vars

C7_Witness ==
    /\ dropAllIndices
    /\ stsIndices = <<>>
    /\ pc = "getSnapshot"
    /\ calls[Len(calls)].op = "ListIndices"
    /\ calls[Len(calls)].ok

\* C8: a failed call of a phase before the resume is the last call of those
\* phases: every later call belongs to the resume step, and the run is
\* unwinding from then on.
C8_FatalStopsForward ==
    \A k \in FatalCalls :
        /\ k + 1 \in DOMAIN calls => k + 1 >= ResumeStart
        /\ pc \in {"scaleDownWrapper", "verifyReturn", "defers", "scaleUpGet",
                   "scaleUpUpdate", "scaleUpReturn", "returned", "exited"}

C8_Witness ==
    /\ \E k \in Ops({"RolloverDatastream"}) : ~calls[k].ok
    /\ pc = "exited"
    /\ scaleUpCalls # <<>>
    /\ stopChan = "closed"
    /\ Ops({"DeleteIndex", "RestoreSnapshot"}) = {}

FatalMsg(op) ==
    CASE op = "NewK8sClient" -> "failed to create Kubernetes client"
      [] op = "LoadConfig" -> "failed to load configuration"
      [] op \in {"ListDeployments", "UpdateDeployment"} -> "failed to scale down deployments"
      [] op = "PortForwardService" -> "failed to setup port-forward"
      [] op = "NewESClient" -> "failed to create Elasticsearch client"
      [] op = "ListIndices" -> "failed to list indices"
      [] op = "ReadStdin" -> "failed to read confirmation"
      [] op = "Confirm" -> "restore cancelled by user"
      [] op = "RolloverDatastream" -> "failed to rollover datastream"
      [] op = "DeleteIndex" -> "failed to delete index"
      [] op = "IndexExists" -> "failed to check index existence"
      [] op = "VerifyTimeout" -> "timeout waiting for index to be deleted"
      [] op = "GetSnapshot" -> "failed to get snapshot details"
      [] op = "RestoreSnapshot" -> "failed to restore snapshot"
      [] OTHER -> ""

\* C10 as stated: the run exits with status 0 exactly when no phase before
\* the resume failed, and the error of a failed run carries the errors of the
\* resume step as well.
C10_ResumeErrorsAppended ==
    pc = "exited" =>
        /\ exitCode = 0 <=> FatalCalls = {}
        /\ (FatalCalls # {} /\ ResumeFailures # {}) =>
              \E e \in Range(err) : e.msg \in ResumeMsgs

\* C10 amended: the run exits with status 0 and a nil error exactly when no
\* phase before the resume failed; otherwise it exits with status 1 and its
\* error is that of the first failed phase alone, with no error of the resume
\* step in it.
C10_FirstFatalAlone ==
    pc = "exited" =>
        /\ exitCode = 0 <=> FatalCalls = {}
        /\ exitCode = 0 => err = <<>>
        /\ exitCode # 0 =>
              /\ exitCode = 1
              /\ err # <<>>
              /\ LET first == CHOOSE k \in FatalCalls : \A j \in FatalCalls : k <= j
                 IN  err[1].msg = FatalMsg(calls[first].op)
              /\ \A e \in Range(err) : e.msg \notin ResumeMsgs

C10_Witness ==
    /\ pc = "exited"
    /\ exitCode = 1
    /\ FatalCalls # {}
    /\ ResumeFailures # {}
    /\ \E n \in DOMAIN log : log[n].level = "warning"

\* C11: whenever the resume step failed, the log holds a warning whose error
\* names every paused deployment that is not back at its original replica
\* count, in quiet mode as in any other.
Unrestored ==
    { k \in DOMAIN scaledDeployments :
        OriginalReplicas(cluster[scaledDeployments[k].Name].replicas)
            # scaledDeployments[k].Replicas }

C11_ResumeFailureWarned ==
    (Ended /\ ResumeFailures # {}) =>
        \E n \in DOMAIN log :
            /\ log[n].level = "warning"
            /\ \A k \in Unrestored :
                 \E e \in Range(log[n].err) : e.dep = scaledDeployments[k].Name

\* C12: ScaleDownDeployments records one snapshot per matching deployment, in
\* listing order, with the replica count the listing showed (0 for nil); it
\* updates to zero exactly the deployments whose count was positive, in that
\* order, and a deployment already at zero is recorded and left alone.
Matching == SelectSeq(DeploymentNames, LAMBDA d : initialCluster[d].matches)
ObservedCount(d) ==
    IF initialCluster[d].replicas = <<>> THEN 0 ELSE initialCluster[d].replicas[1]
PauseUpdates == SelectSeq(calls, LAMBDA c : c.op = "UpdateDeployment")

C12_PauseSnapshots ==
    (pc \in {"scaleDownLoop", "scaleDownWrapper"}
       /\ \E k \in Ops({"ListDeployments"}) : calls[k].ok) =>
        LET positive == SelectSeq(captured, LAMBDA s : s.Replicas # 0)
        IN  /\ Len(captured) <= Len(Matching)
            /\ \A k \in DOMAIN captured :
                 /\ captured[k].Name = Matching[k]
                 /\ captured[k].Replicas = ObservedCount(Matching[k])
            /\ (pc = "scaleDownWrapper" /\ subErr = <<>>) =>
                  Len(captured) = Len(Matching)
            /\ Len(PauseUpdates) = Len(positive)
            /\ \A k \in DOMAIN positive :
                 /\ PauseUpdates[k].dep = positive[k].Name
                 /\ PauseUpdates[k].n = 0
                 /\ PauseUpdates[k].ok => cluster[positive[k].Name].replicas = <<0>>
            /\ \A k \in DOMAIN captured :
                 captured[k].Replicas = 0 =>
                   cluster[captured[k].Name] = initialCluster[captured[k].Name]

C12_Witness ==
    /\ pc = "scaleDownWrapper"
    /\ subErr = <<>>
    /\ initialCluster["A"] = [matches |-> TRUE, replicas |-> <<>>]
    /\ initialCluster["B"] = [matches |-> TRUE, replicas |-> <<1>>]
    /\ captured = << [Name |-> "A", Replicas |-> 0], [Name |-> "B", Replicas |-> 1] >>
    /\ Len(PauseUpdates) = 1
    /\ cluster["A"].replicas = <<>>
    /\ cluster["B"].replicas = <<0>>

\* ---------------------------------------------- deleteIndexWithVerification
\* The delete call of the running deleteIndexWithVerification succeeded.
LastDeleteOk ==
    /\ Ops({"DeleteIndex"}) # {}
    /\ LET last == CHOOSE k \in Ops({"DeleteIndex"}) :
                       \A j \in Ops({"DeleteIndex"}) : j <= k
       IN  calls[last].ok

\* C13: a rejected delete call is final for its index: deleteIndexWithVerification
\* returns the delete error naming the index, the index gets no second delete
\* call, and no existence check is made.
C13_DeleteFailureFatal ==
    \A k \in Ops({"DeleteIndex"}) :
        ~calls[k].ok =>
            /\ pc # "verify"
            /\ \A j \in Ops({"DeleteIndex", "IndexExists", "VerifyTimeout"}) : j <= k
            /\ \A j \in Ops({"DeleteIndex"}) : calls[j].idx = calls[k].idx => j = k
            /\ pc = "verifyReturn" =>
                  /\ answers = <<>>
                  /\ sleeps = 0
                  /\ delErr = << ErrIdx("failed to delete index", calls[k].idx),
                                 Err("api error") >>

C13_Witness ==
    /\ pc = "verifyReturn"
    /\ i = 2
    /\ ~calls[Len(calls)].ok
    /\ calls[Len(calls)].op = "DeleteIndex"
    /\ answers = <<>>
    /\ delErr # <<>>

\* C14: when IndexExists first answers "absent" on check number k, the
\* verification returns nil after exactly k checks and k - 1 sleeps.
C14_SuccessAtFirstAbsent ==
    \A k \in 1..defaultMaxIndexDeleteAttempts :
        ( /\ k \in DOMAIN answers
          /\ answers[k] = "absent"
          /\ \A j \in 1..(k - 1) : answers[j] = "present" ) =>
            /\ pc = "verifyReturn"
            /\ delErr = <<>>
            /\ Len(answers) = k
            /\ sleeps = k - 1

C14_Witness ==
    /\ pc = "verifyReturn"
    /\ Len(answers) = 5
    /\ answers[5] = "absent"
    /\ sleeps = 4
    /\ delErr = <<>>

\* C15: while IndexExists keeps answering "present", the verification goes
\* on until it has made defaultMaxIndexDeleteAttempts checks, and then, not
\* before and not later, it returns the timeout error naming the index.
C15_TimeoutAfterMaxAttempts ==
    ( /\ pc \in {"verify", "verifyReturn"}
      /\ LastDeleteOk
      /\ \A j \in DOMAIN answers : answers[j] = "present" ) =>
        /\ Len(answers) <= defaultMaxIndexDeleteAttempts
        /\ pc = "verifyReturn" <=> Len(answers) = defaultMaxIndexDeleteAttempts
        /\ pc = "verifyReturn" =>
              delErr = << ErrIdx("timeout waiting for index to be deleted", stsIndices[i]) >>

C15_Witness ==
    /\ pc = "verifyReturn"
    /\ Len(answers) = 30
    /\ \A j \in DOMAIN answers : answers[j] = "present"
    /\ sleeps = 29
    /\ delErr # <<>>
    /\ delErr[1].idx = stsIndices[i]

\* C16 as stated: after a successful delete call the verification returns
\* either nil on an "absent" answer or the timeout error after the last
\* attempt, and in no other way.
C16_TwoOutcomes ==
    (pc = "verifyReturn" /\ LastDeleteOk) =>
        \/ /\ delErr = <<>>
           /\ answers[Len(answers)] = "absent"
        \/ /\ delErr = << ErrIdx("timeout waiting for index to be deleted", stsIndices[i]) >>
           /\ Len(answers) = defaultMaxIndexDeleteAttempts

\* C16 amended: after a successful delete call the verification returns in
\* exactly one of three ways: nil on an "absent" answer, the timeout error
\* after the last attempt, or the error of an existence check that failed;
\* until then every answer was "present".
C16_ThreeOutcomes ==
    /\ (pc = "verifyReturn" /\ LastDeleteOk) =>
          /\ answers # <<>>
          /\ \A j \in 1..(Len(answers) - 1) : answers[j] = "present"
          /\ LET last == answers[Len(answers)]
             IN  \/ /\ last = "absent"
                    /\ delErr = <<>>
                 \/ /\ last = "present"
                    /\ Len(answers) = defaultMaxIndexDeleteAttempts
                    /\ delErr = << ErrIdx("timeout waiting for index to be deleted",
                                          stsIndices[i]) >>
                 \/ /\ last = "error"
                    /\ delErr = << Err("failed to check index existence"),
                                   Err("api error") >>
    /\ pc = "verify" =>
          /\ delErr = <<>>
          /\ \A j \in DOMAIN answers : answers[j] = "present"

C16_Witness ==
    /\ pc = "verifyReturn"
    /\ Len(answers) = 3
    /\ answers[3] = "error"
    /\ delErr # <<>>
    /\ delErr[1].msg = "failed to check index existence"

\* --------------------------------------------------------- destructive path
\* Some managed index is a backing index of the data stream ("sts_k8s_logs-...").
HasDataStreamMembers ==
    \E k \in DOMAIN stsIndices :
        /\ Len(stsIndices[k]) >= 4
        /\ SubSeq(stsIndices[k], 1, 4) = <<"s", "_", "k", "-">>

\* The call this step appends to the trace, if any.
Issues(ops) ==
    /\ Len(calls') = Len(calls) + 1
    /\ calls'[Len(calls')].op \in ops

RolloverFailed == \E k \in Ops({"RolloverDatastream"}) : ~calls[k].ok

\* C17: past the confirmation, the rollover is called exactly when a managed
\* index is a backing index of the data stream, at most once and before any
\* delete call; after a failed rollover no delete and no restore call is
\* made and the run exits with status 1.
C17_RolloverRule ==
    [][ /\ pc = "rollover" =>
              /\ Issues({"RolloverDatastream"}) <=> HasDataStreamMembers
              /\ ~HasDataStreamMembers => calls' = calls
        /\ Issues({"RolloverDatastream"}) =>
              /\ pc = "rollover"
              /\ Ops({"RolloverDatastream", "DeleteIndex"}) = {}
        /\ Issues({"DeleteIndex", "IndexExists", "GetSnapshot", "RestoreSnapshot"}) =>
              ~RolloverFailed
        /\ (RolloverFailed /\ pc' = "exited") =>
              /\ exitCode' = 1
              /\ err'[1].msg = "failed to rollover datastream"
      ]_vars

C17_Witness ==
    /\ pc = "deleteIndex"
    /\ i = 1
    /\ stsIndices = << <<"s", "_", "t">>, <<"s", "_", "k", "-", "1">> >>
    /\ calls[Len(calls)].op = "RolloverDatastream"
    /\ calls[Len(calls)].ok

\* A deletion failed: the delete call, an existence check, or the timeout.
DeletionFailures ==
    { k \in Ops({"DeleteIndex", "IndexExists", "VerifyTimeout"}) : ~calls[k].ok }

\* One step of the run as C18 allows it.
DeleteStepRule ==
    /\ Issues({"DeleteIndex"}) =>
          /\ pc = "deleteIndex"
          /\ Cardinality(Ops({"DeleteIndex"})) < Len(stsIndices)
          /\ calls'[Len(calls')].idx
                = stsIndices[Cardinality(Ops({"DeleteIndex"})) + 1]
    /\ (pc' = "deleteIndex" /\ Ops({"DeleteIndex"}) # {}) =>
          /\ pc = "verifyReturn"
          /\ LastDeleteOk
          /\ delErr = <<>>
          /\ answers # <<>>
          /\ answers[Len(answers)] = "absent"
    /\ (pc = "verifyReturn" /\ delErr # <<>>) =>
          /\ pc' = "defers"
          /\ err' = delErr
    /\ Issues({"DeleteIndex", "IndexExists", "VerifyTimeout", "GetSnapshot",
               "RestoreSnapshot"}) => DeletionFailures = {}

\* C18: the delete calls go through the managed indices in listing order, one
\* index per call; the next delete call is made only after the verification
\* of the previous index returned nil on an "absent" answer; after the first
\* failed deletion the run unwinds with that error, and no delete or restore
\* call follows.
C18_DeleteInOrderVerified ==
    /\ [][DeleteStepRule]_vars
    /\ [](DeletionFailures # {} =>
              (pc \notin {"deleteIndex", "verify", "getSnapshot", "restore"}
                 /\ (pc = "exited" => exitCode = 1)))

C18_Witness ==
    /\ pc = "verify"
    /\ i = 2
    /\ Len(stsIndices) = 2
    /\ LET D == SelectSeq(calls, LAMBDA c : c.op = "DeleteIndex")
       IN  /\ Len(D) = 2
           /\ D[1].idx = stsIndices[1] /\ D[1].ok
           /\ D[2].idx = stsIndices[2] /\ D[2].ok

\* ------------------------------------------------------------------ restore
\* Operations a run makes before the restore call whatever its flags.
RestorePrerequisites ==
    {"NewK8sClient", "LoadConfig", "ListDeployments", "PortForwardService",
     "ReadyReceived", "NewESClient", "ListIndices", "GetSnapshot"}

\* C19: RestoreSnapshot is called at most once, after every earlier phase
\* succeeded, with the configured repository, the --snapshot-name value, the
\* configured indices pattern and waitForCompletion = true; when it fails
\* the run exits with status 1 and the restore error.
C19_RestoreOnceAfterSuccess ==
    /\ Len(restoreCalls) <= 1
    /\ Cardinality(Ops({"RestoreSnapshot"})) = Len(restoreCalls)
    /\ \A n \in DOMAIN restoreCalls :
         restoreCalls[n] = [ repository |-> "sts-backup", snapshotName |-> "snap-1",
                             indicesPattern |-> "sts_*", waitForCompletion |-> TRUE ]
    /\ \A k \in Ops({"RestoreSnapshot"}) :
         /\ \A j \in 1..(k - 1) : calls[j].ok
         /\ \A op \in RestorePrerequisites : \E j \in 1..(k - 1) : calls[j].op = op
         /\ (dropAllIndices /\ ~skipConfirmation /\ Ops({"DeleteIndex"}) # {}) =>
               Ops({"Confirm"}) # {}
         /\ (~calls[k].ok /\ pc = "exited") =>
               /\ exitCode = 1
               /\ err[1].msg = "failed to restore snapshot"

C19_Witness ==
    /\ pc = "exited"
    /\ Len(restoreCalls) = 1
    /\ restoreCalls[1].waitForCompletion
    /\ \E k \in Ops({"RestoreSnapshot"}) : ~calls[k].ok
    /\ Ops({"DeleteIndex"}) # {}
    /\ exitCode = 1

\* C20: a snapshot fetched in state FAILED is never restored with success:
\* the step that restores it returns an error and writes no success line.
C20_FailedSnapshotFails ==
    [][ (pc = "restore" /\ snapshotState = "FAILED") =>
            /\ err' # <<>>
            /\ \A n \in DOMAIN log' : log'[n].text # "Restore completed successfully"
      ]_vars

\* ================================================== functions on their own
\* The variables of the run, at rest while a function is called on its own.
runVars == << dropAllIndices, skipConfirmation, quiet, cluster, initialCluster,
              items, i, captured, subErr, scaledDeployments, defers, tunnel,
              stopChan, stsIndices, attempt, answers, sleeps, delErr,
              snapshotState, err, exitCode, calls, scaleUpCalls, restoreCalls,
              log >>

RunIdle ==
    /\ dropAllIndices = FALSE
    /\ skipConfirmation = FALSE
    /\ quiet = FALSE
    /\ cluster = [d \in Range(DeploymentNames) |-> [matches |-> FALSE, replicas |-> <<>>]]
    /\ initialCluster = cluster
    /\ items = <<>>
    /\ i = 0
    /\ captured = <<>>
    /\ subErr = <<>>
    /\ scaledDeployments = <<>>
    /\ defers = <<>>
    /\ tunnel = "none"
    /\ stopChan = "nil"
    /\ stsIndices = <<>>
    /\ attempt = 0
    /\ answers = <<>>
    /\ sleeps = 0
    /\ delErr = <<>>
    /\ snapshotState = ""
    /\ err = <<>>
    /\ exitCode = -1
    /\ calls = <<>>
    /\ scaleUpCalls = <<>>
    /\ restoreCalls = <<>>
    /\ log = <<>>

\* ------------------------------------ filterSTSIndices, hasDatastreamIndices
\* Index lists of at most MaxIndices names, duplicates included, and the
\* prefixes a configuration may hold.
IndexLists == UNION { [1..n -> IndexNames] : n \in 0..MaxIndices }
Prefixes == { <<>>, <<"s", "_">>, <<"s", "_", "k">>, <<"o">> }

InitIndexFunctions ==
    /\ pc = "call"
    /\ args \in [indices : IndexLists, indexPrefix : Prefixes, datastreamPrefix : Prefixes]
    /\ result = <<>>
    /\ RunIdle

CallFilterSTSIndices ==
    /\ pc = "call"
    /\ result' = filterSTSIndices(args.indices, args.indexPrefix, args.datastreamPrefix)
    /\ pc' = "filtered"
    /\ UNCHANGED << args, runVars >>

CallHasDatastreamIndices ==
    /\ pc = "call"
    /\ result' = hasDatastreamIndices(args.indices, args.datastreamPrefix)
    /\ pc' = "classified"
    /\ UNCHANGED << args, runVars >>

NextIndexFunctions == CallFilterSTSIndices \/ CallHasDatastreamIndices

SpecIndexFunctions == InitIndexFunctions /\ [][NextIndexFunctions]_vars

\* p is a literal prefix of the name s.
StartsWith(s, p) ==
    /\ Len(p) <= Len(s)
    /\ \A k \in 1..Len(p) : s[k] = p[k]

\* C21: filterSTSIndices returns the sub-sequence of the indices that start
\* with the index prefix or the data-stream prefix, in input order, and the
\* empty list for the empty list.
C21_FilterIsSubsequence ==
    pc = "filtered" =>
        /\ result = SelectSeq(args.indices,
                              LAMBDA x : \/ StartsWith(x, args.indexPrefix)
                                         \/ StartsWith(x, args.datastreamPrefix))
        /\ args.indices = <<>> => result = <<>>

C21_Witness ==
    /\ pc = "filtered"
    /\ args.indices = << <<"s", "_", "k", "-", "1">>, <<"s", "_", "t">> >>
    /\ args.indexPrefix = <<"o">>
    /\ args.datastreamPrefix = <<"s", "_", "k">>
    /\ result = << <<"s", "_", "k", "-", "1">> >>

\* C22: hasDatastreamIndices is true exactly when some index starts with the
\* data-stream prefix followed by a dash; an index equal to the prefix does
\* not count and the empty list gives false.
C22_DataStreamMembers ==
    pc = "classified" =>
        /\ result <=>
              \E k \in DOMAIN args.indices :
                  LET x == args.indices[k]
                      n == Len(args.datastreamPrefix)
                  IN  /\ Len(x) > n
                      /\ StartsWith(x, args.datastreamPrefix)
                      /\ x[n + 1] = "-"
        /\ args.indices = <<>> => ~result
        /\ (\A k \in DOMAIN args.indices : args.indices[k] = args.datastreamPrefix)
              => ~result

C22_Witness ==
    /\ pc = "classified"
    /\ args.indices = << <<"s", "_", "k">>, <<"s", "_", "k", "-", "1">> >>
    /\ args.datastreamPrefix = <<"s", "_", "k">>
    /\ result

\* --------------------------------------------------------- confirmDeletion
\* What standard input may hold: at most MaxLine characters.
ConfirmAlphabet == {"y", "Y", "e", "s", "n", " ", "\n"}
ConfirmInputs == UNION { [1..n -> ConfirmAlphabet] : n \in 0..MaxLine }

InitConfirm ==
    /\ pc = "call"
    /\ args \in ConfirmInputs
    /\ result = <<>>
    /\ RunIdle

CallConfirmDeletion ==
    /\ pc = "call"
    /\ result' = confirmDeletion(args)
    /\ pc' = "answered"
    /\ UNCHANGED << args, runVars >>

NextConfirm == CallConfirmDeletion

SpecConfirm == InitConfirm /\ [][NextConfirm]_vars

\* The characters lo..hi of the line spell "yes" or "y" in any case.
SpellsYes(line, lo, hi) ==
    \/ /\ hi = lo
       /\ line[lo] \in {"y", "Y"}
    \/ /\ hi = lo + 2
       /\ line[lo] \in {"y", "Y"}
       /\ line[lo + 1] \in {"e", "E"}
       /\ line[lo + 2] \in {"s", "S"}

\* The line is "yes" or "y" in any case between whitespace.
YesBetweenSpaces(line) ==
    \E lo, hi \in DOMAIN line :
        /\ SpellsYes(line, lo, hi)
        /\ \A k \in DOMAIN line : (k < lo \/ k > hi) => line[k] \in {" ", "\n"}

SearchEngineOps ==
    {"ListIndices", "RolloverDatastream", "DeleteIndex", "IndexExists",
     "VerifyTimeout", "GetSnapshot", "RestoreSnapshot"}

\* Positions of runRestore between the wait on the ready channel and its
\* return, where the search engine is called.
SearchEnginePositions ==
    {"newESClient", "listIndices", "deleteIndices", "confirm", "rollover",
     "deleteIndex", "verify", "verifyReturn", "getSnapshot", "restore"}

\* C24: every call on the search engine is made while the port-forward task
\* has closed the ready channel, and runRestore is past its wait on that
\* channel only when the task has.
C24_NoCallBeforeReady ==
    /\ [][Issues(SearchEngineOps) =>
             (tunnel = "ready" /\ Ops({"ReadyReceived"}) # {})]_vars
    /\ [](pc \in SearchEnginePositions => tunnel = "ready")
    /\ [](Ops(SearchEngineOps) # {} => tunnel \in {"ready", "stopped"})

C24_Witness ==
    /\ pc = "getSnapshot"
    /\ tunnel = "ready"
    /\ Len(calls) >= 2
    /\ calls[Len(calls)].op = "ListIndices"
    /\ \E k \in Ops({"ReadyReceived"}) : k < Len(calls)

\* The phase of call k of the trace c: 1 pause, 2 list, 3 confirm, 4 rollover,
\* 5 delete, 6 restore, 7 resume; 0 for the calls that prepare the run.  An
\* update of a deployment belongs to the resume once a deployment was fetched.
PhaseRank(c, k) ==
    LET op == c[k].op
    IN  CASE op = "ListDeployments" -> 1
          [] op = "UpdateDeployment" ->
                IF \E j \in 1..(k - 1) : c[j].op = "GetDeployment" THEN 7 ELSE 1
          [] op = "ListIndices" -> 2
          [] op \in {"Confirm", "ReadStdin"} -> 3
          [] op = "RolloverDatastream" -> 4
          [] op \in {"DeleteIndex", "IndexExists", "VerifyTimeout"} -> 5
          [] op \in {"GetSnapshot", "RestoreSnapshot"} -> 6
          [] op = "GetDeployment" -> 7
          [] OTHER -> 0

\* Every deployment the selector matches is at zero replicas.
AllPaused ==
    \A d \in Range(DeploymentNames) :
        cluster[d].matches => cluster[d].replicas \in {<<>>, <<0>>}

\* One step of the run as C25 allows it.
PhaseStepRule ==
    /\ Len(calls') = Len(calls) + 1 =>
          \A j \in DOMAIN calls :
              PhaseRank(calls', j) <= PhaseRank(calls', Len(calls'))
                \/ PhaseRank(calls', Len(calls')) = 0
    /\ Issues({"RolloverDatastream", "DeleteIndex", "RestoreSnapshot"}) =>
          /\ \E k \in Ops({"ListDeployments"}) : calls[k].ok
          /\ \A k \in Ops({"UpdateDeployment"}) : calls[k].ok
          /\ AllPaused
          /\ scaledDeployments = captured
          /\ scaleUpCalls = <<>>
          /\ Ops({"GetDeployment"}) = {}

\* C25: the calls of a run follow the phases pause, list, confirm, rollover,
\* delete, restore, resume, with no call of an earlier phase after a call of a
\* later one; every rollover, delete and restore call is made after the pause
\* succeeded, with every matching deployment at zero, and before the resume.
C25_PhasesInSequence == [][PhaseStepRule]_vars

C25_Witness ==
    /\ pc = "exited"
    /\ \A r \in 1..7 : \E k \in DOMAIN calls : PhaseRank(calls, k) = r
    /\ initialCluster["A"] = [matches |-> TRUE, replicas |-> <<1>>]

\* ------------------------------------------------------- config.LoadConfig
\* A Config reduced to three of its fields: Restore.Repository (required),
\* SnapshotRepository.BasePath (optional) and Service.Port (required, 1 to
\* 65535).  A field a YAML document leaves out has its zero value.
ZeroConfig == [repository |-> "", basepath |-> "", port |-> 0]
Configs ==
    [repository : {"", "cm-repo", "secret-repo"}, basepath : {"", "base"},
     port : {0, 9200, 70000}]

\* What the API server holds under a ConfigMap or Secret name: nothing, an
\* object without the "config" key, one whose "config" value is not YAML, or
\* one whose "config" value decodes to a Config.
StoredObjects ==
    [kind : {"notFound", "noKey", "badYAML"}, config : {ZeroConfig}]
        \cup [kind : {"config"}, config : Configs]

\* mergo.Merge overwriting every field, zero values of src included.
Merge_OverrideAll(dst, src) == src

\* mergo.Merge(dst, src, mergo.WithOverride): the non-zero fields of src
\* replace those of dst.
Merge(dst, src) ==
    [f \in DOMAIN dst |-> IF src[f] = ZeroConfig[f] THEN dst[f] ELSE src[f]]

\* validator.Struct on the tags of the three fields.
Validate(c) ==
    /\ c.repository # ""
    /\ c.port # 0
    /\ c.port >= 1
    /\ c.port <= 65535

\* A *Config and an error as LoadConfig returns them.
Loaded(c) == [config |-> <<c>>, err |-> <<>>]
Failed(e) == [config |-> <<>>, err |-> e]

\* LoadConfig(clientset, namespace, configMapName, secretName), with what the
\* clientset holds under the two names.
LoadConfigResult(configMapName, secretName, cm, secret) ==
    LET base == IF configMapName # "" THEN cm.config ELSE ZeroConfig
        merged == IF secretName # "" /\ secret.kind = "config"
                  THEN Merge(base, secret.config)
                  ELSE base
    IN  IF configMapName # "" /\ cm.kind = "notFound"
        THEN Failed(Wrap(Err("failed to get ConfigMap"), ApiError))
        ELSE IF configMapName # "" /\ cm.kind = "badYAML"
        THEN Failed(Wrap(Err("failed to parse ConfigMap config"), ApiError))
        ELSE IF configMapName # "" /\ cm.kind = "noKey"
        THEN Failed(<< Err("ConfigMap does not contain 'config' key") >>)
        ELSE IF secretName # "" /\ secret.kind = "badYAML"
        THEN Failed(Wrap(Err("failed to parse Secret config"), ApiError))
        ELSE IF ~Validate(merged)
        THEN Failed(Wrap(Err("configuration validation failed"), ApiError))
        ELSE Loaded(merged)

InitLoadConfig ==
    /\ pc = "call"
    /\ args \in [configMapName : {"", "backup-config"},
                  secretName : {"", "backup-secret"},
                  configMap : StoredObjects, secret : StoredObjects]
    /\ result = <<>>
    /\ RunIdle

CallLoadConfig ==
    /\ pc = "call"
    /\ result' = LoadConfigResult(args.configMapName, args.secretName,
                                  args.configMap, args.secret)
    /\ pc' = "loaded"
    /\ UNCHANGED << args, runVars >>

NextLoadConfig == CallLoadConfig

SpecLoadConfig == InitLoadConfig /\ [][NextLoadConfig]_vars

\* The configuration passes the validation tags.
Complete(c) == c.repository # "" /\ c.port \in 1..65535

\* C26: with a ConfigMap that decodes, LoadConfig returns the ConfigMap's
\* configuration with every field the Secret sets to a non-zero value taken
\* from the Secret and every other field kept; a Secret that is not named, not
\* found or without the "config" key leaves the ConfigMap's configuration as
\* it is and is no error.
C26_SecretOverridesConfigMap ==
    ( /\ pc = "loaded"
      /\ args.configMapName # ""
      /\ args.configMap.kind = "config"
      /\ (args.secretName # "" => args.secret.kind # "badYAML") ) =>
        LET c == args.configMap.config
            x == args.secret.config
            expected ==
                IF args.secretName # "" /\ args.secret.kind = "config"
                THEN [ repository |-> IF x.repository # "" THEN x.repository
                                      ELSE c.repository,
                       basepath |-> IF x.basepath # "" THEN x.basepath ELSE c.basepath,
                       port |-> IF x.port # 0 THEN x.port ELSE c.port ]
                ELSE c
        IN  IF Complete(expected)
            THEN result = [config |-> << expected >>, err |-> <<>>]
            ELSE result.config = <<>> /\ result.err # <<>>

C26_Witness ==
    /\ pc = "loaded"
    /\ args.configMapName = "backup-config"
    /\ args.secretName = "backup-secret"
    /\ args.configMap = [kind |-> "config",
                         config |-> [repository |-> "cm-repo", basepath |-> "base",
                                     port |-> 9200]]
    /\ args.secret = [kind |-> "config",
                      config |-> [repository |-> "secret-repo", basepath |-> "",
                                  port |-> 0]]
    /\ result = [config |-> << [repository |-> "secret-repo", basepath |-> "base",
                                port |-> 9200] >>,
                 err |-> <<>>]

\* C27: LoadConfig returns an error and a nil configuration when the ConfigMap
\* name is empty, the ConfigMap is not found, has no "config" key or does not
\* decode; a configuration it returns passes the validation and comes with a
\* nil error.
C27_ConfigMapRequired ==
    pc = "loaded" =>
        /\ ( \/ args.configMapName = ""
             \/ args.configMap.kind \in {"notFound", "noKey", "badYAML"} ) =>
               (result.config = <<>> /\ result.err # <<>>)
        /\ result.config # <<>> =>
               (Complete(result.config[1]) /\ result.err = <<>>)
        /\ result.err # <<>> => result.config = <<>>

\* ------------------------------------------------------------ logger.Logger
\* A Logger is its quiet and debug fields; its writer is the sequence of
\* lines written so far, a line being prefix, formatted text and newline.
\* "OK " stands for the check mark and space that Successf writes.
Loggers == [quiet : BOOLEAN, debug : BOOLEAN]
Texts == {"a", "b"}
Line(prefix, text) == << prefix, text, "\n" >>

\* Debugf silenced by quiet as the other levels are.
Logger_Debugf_UnlessQuiet(l, writer, text) ==
    IF l.debug /\ ~l.quiet THEN Append(writer, Line("DEBUG: ", text)) ELSE writer

Logger_Infof(l, writer, text) ==
    IF ~l.quiet THEN Append(writer, Line("", text)) ELSE writer
Logger_Successf(l, writer, text) ==
    IF ~l.quiet THEN Append(writer, Line("OK ", text)) ELSE writer
Logger_Warningf(l, writer, text) ==
    IF ~l.quiet THEN Append(writer, Line("Warning: ", text)) ELSE writer
Logger_Errorf(l, writer, text) == Append(writer, Line("Error: ", text))
Logger_Debugf(l, writer, text) ==
    IF l.debug THEN Append(writer, Line("DEBUG: ", text)) ELSE writer
Logger_Println(l, writer) ==
    IF ~l.quiet THEN Append(writer, Line("", "")) ELSE writer

\* logger.New(quiet, debug) with an empty writer; result also keeps the
\* methods called so far.
InitLogger ==
    /\ pc = "call"
    /\ args \in Loggers
    /\ result = [writer |-> <<>>, called |-> <<>>]
    /\ RunIdle

Called(method, writer) ==
    /\ pc = "call"
    /\ Len(result.called) < MaxLogCalls
    /\ result' = [writer |-> writer, called |-> Append(result.called, method)]
    /\ UNCHANGED << pc, args, runVars >>

CallInfof == \E text \in Texts : Called("Infof", Logger_Infof(args, result.writer, text))
CallSuccessf == \E text \in Texts : Called("Successf", Logger_Successf(args, result.writer, text))
CallWarningf == \E text \in Texts : Called("Warningf", Logger_Warningf(args, result.writer, text))
CallErrorf == \E text \in Texts : Called("Errorf", Logger_Errorf(args, result.writer, text))
CallDebugf == \E text \in Texts : Called("Debugf", Logger_Debugf(args, result.writer, text))
CallPrintln == Called("Println", Logger_Println(args, result.writer))

NextLogger ==
    \/ CallInfof
    \/ CallSuccessf
    \/ CallWarningf
    \/ CallErrorf
    \/ CallDebugf
    \/ CallPrintln

SpecLogger == InitLogger /\ [][NextLogger]_vars

\* The calls among those made that the claim says write a line.
Audible ==
    { k \in 1..Len(result.called) :
        \/ result.called[k] = "Errorf"
        \/ result.called[k] = "Debugf" /\ args.debug
        \/ result.called[k] \in {"Infof", "Successf", "Warningf", "Println"}
              /\ ~args.quiet }

\* The prefix each method writes.
PrefixOf(method) ==
    CASE method = "Errorf" -> "Error: "
      [] method = "Debugf" -> "DEBUG: "
      [] method = "Warningf" -> "Warning: "
      [] method = "Successf" -> "OK "
      [] OTHER -> ""

\* The k-th audible call, in call order.
RECURSIVE AudibleCalls(_)
AudibleCalls(called) ==
    IF called = <<>> THEN <<>>
    ELSE LET rest == AudibleCalls(SubSeq(called, 1, Len(called) - 1))
             m == called[Len(called)]
         IN  IF Len(called) \in Audible THEN Append(rest, m) ELSE rest

\* C28: the lines written are exactly those of the calls of Errorf, of Debugf
\* when debug is set, and of Infof, Successf, Warningf and Println when quiet
\* is not set, one line per such call in call order, whatever the other flag.
C28_QuietAndDebug ==
    pc = "call" =>
        LET heard == AudibleCalls(result.called)
        IN  /\ Len(result.writer) = Len(heard)
            /\ \A k \in 1..Len(heard) : result.writer[k][1] = PrefixOf(heard[k])

C28_Witness ==
    /\ pc = "call"
    /\ args = [quiet |-> TRUE, debug |-> TRUE]
    /\ result.called = << "Infof", "Debugf", "Errorf" >>
    /\ result.writer = << Line("DEBUG: ", "a"), Line("Error: ", "b") >>

\* --------------------------------------------------------- output.Formatter
FormatTable == "table"
FormatJSON == "json"

\* Format strings a caller may pass, and tables of at most MaxRows rows; a
\* row may be shorter than the headers, and a header may repeat.
FormatStrings == {"table", "json", "yaml", "JSON", ""}
HeaderLists == { << "NAME" >>, << "NAME", "SIZE" >>, << "NAME", "NAME" >> }
RowValues == { << "a" >>, << "a", "b" >>, << "b", "a" >> }
Tables ==
    [Headers : HeaderLists, Rows : UNION { [1..n -> RowValues] : n \in 0..MaxRows }]

\* NewFormatter keeping whatever format string it is given.
NewFormatter_KeepFormat(format) == [format |-> format]

\* NewFormatter(format): the Format of the formatter.
NewFormatter(format) ==
    [format |-> IF format # FormatTable /\ format # FormatJSON THEN FormatTable
                ELSE format]

\* What reaches the writer: a text line (its pieces in order, newline
\* implied), a tab-aligned line of cells, or one JSON document.
TextLine(pieces) == << "line", pieces >>
CellLine(cells) == << "row", cells >>
JSONDocument(data) == << "json", data >>

\* tableToMaps: one map per row, header to cell for the cells the row has; a
\* repeated header keeps the later cell.
tableToMaps(table) ==
    [ r \in 1..Len(table.Rows) |->
        LET row == table.Rows[r]
            used == { h \in 1..Len(table.Headers) : h <= Len(row) }
        IN  [ header \in { table.Headers[h] : h \in used } |->
                LET last == CHOOSE h \in used :
                                /\ table.Headers[h] = header
                                /\ \A g \in used : table.Headers[g] = header => g <= h
                IN  row[last] ] ]

\* printTable and printJSON: what they add to the writer.
printTable(table) ==
    << CellLine(table.Headers) >> \o [ r \in 1..Len(table.Rows) |-> CellLine(table.Rows[r]) ]
printJSON(data) == << JSONDocument(data) >>

PrintTable(f, table) ==
    IF Len(table.Rows) = 0
    THEN IF f.format = FormatTable
         THEN << TextLine(<< "No data found" >>) >>
         ELSE printJSON(<<>>)
    ELSE IF f.format = FormatJSON THEN printJSON(tableToMaps(table))
         ELSE printTable(table)

PrintMessage(f, message) ==
    IF f.format = FormatTable THEN << TextLine(<< message >>) >> ELSE <<>>

PrintError(f, e) ==
    IF f.format = FormatTable THEN << TextLine(<< "Errorf: ", e[1].msg >>) >> ELSE <<>>

InitFormatter ==
    /\ pc = "call"
    /\ args \in [format : FormatStrings, table : Tables, message : Texts]
    /\ result = <<>>
    /\ RunIdle

Printed(method, written) ==
    /\ pc = "call"
    /\ result' = << method, written >>
    /\ pc' = "printed"
    /\ UNCHANGED << args, runVars >>

CallPrintTable == Printed("PrintTable", PrintTable(NewFormatter(args.format), args.table))
CallPrintMessage == Printed("PrintMessage", PrintMessage(NewFormatter(args.format), args.message))
CallPrintError == Printed("PrintError", PrintError(NewFormatter(args.format), << Err(args.message) >>))

NextFormatter ==
    \/ CallPrintTable
    \/ CallPrintMessage
    \/ CallPrintError

SpecFormatter == InitFormatter /\ [][NextFormatter]_vars

\* C29: every format string but "json" prints as "table" does: a message and
\* an error are written as a line, a table without rows prints "No data
\* found" and a table with rows prints its header and one line per row; with
\* "json" a message and an error write nothing and a table without rows
\* writes an empty array.
C29_FormatRules ==
    pc = "printed" =>
        LET method == result[1]
            written == result[2]
            rows == args.table.Rows
        IN  IF args.format = "json"
            THEN /\ method \in {"PrintMessage", "PrintError"} => written = <<>>
                 /\ method = "PrintTable" =>
                       /\ Len(written) = 1
                       /\ written[1][1] = "json"
                       /\ Len(written[1][2]) = Len(rows)
            ELSE /\ method = "PrintMessage" => written = << << "line", << args.message >> >> >>
                 /\ method = "PrintError" =>
                       written = << << "line", << "Errorf: ", args.message >> >> >>
                 /\ method = "PrintTable" /\ rows = <<>> =>
                       written = << << "line", << "No data found" >> >> >>
                 /\ method = "PrintTable" /\ rows # <<>> =>
                       /\ Len(written) = Len(rows) + 1
                       /\ written[1] = << "row", args.table.Headers >>
                       /\ \A r \in 1..Len(rows) : written[r + 1] = << "row", rows[r] >>

C29_Witness ==
    /\ pc = "printed"
    /\ args.format = "yaml"
    /\ args.table.Rows = <<>>
    /\ result = << "PrintTable", << << "line", << "No data found" >> >> >> >>

\* ------------------------------------------------------------- termination
\* The run under scheduling: every remote call returns and both the
\* orchestrator and the background task of PortForwardPod get to run, so a
\* step that stays possible is eventually taken.
FairSpec == Init /\ [][Next]_vars /\ WF_vars(Next)

\* The pause step has scaled workloads down and returned no error: the run
\* is at the port-forward setup or waits for the ready channel.
PausedAndGoingOn ==
    /\ pc \in {"portForward", "waitReady"}
    /\ scaledDeployments # <<>>

\* C30: a run that has paused the workloads eventually finishes with its
\* deferred resume step done, in particular when ForwardPorts fails before
\* the ready channel is closed.
C30_ResumeReached == PausedAndGoingOn ~> (pc = "exited" /\ defers = <<>>)

\* ------------------------------------------- deleteIndexWithVerification
\* deleteIndexWithVerification on its own: called on the first index of a
\* non-empty managed list, with the tunnel ready and nothing else going on,
\* under scheduling in which every remote call returns.
InitDeleteIndex ==
    /\ pc = "deleteIndex"
    /\ stsIndices \in (IndexLists \ {<<>>})
    /\ i = 1
    /\ tunnel = "ready"
    /\ stopChan = "open"
    /\ dropAllIndices = TRUE
    /\ skipConfirmation = TRUE
    /\ quiet = FALSE
    /\ cluster = [d \in Range(DeploymentNames) |-> [matches |-> FALSE, replicas |-> <<>>]]
    /\ initialCluster = cluster
    /\ items = <<>>
    /\ captured = <<>>
    /\ subErr = <<>>
    /\ scaledDeployments = <<>>
    /\ defers = <<>>
    /\ attempt = 0
    /\ answers = <<>>
    /\ sleeps = 0
    /\ delErr = <<>>
    /\ snapshotState = ""
    /\ err = <<>>
    /\ exitCode = -1
    /\ calls = <<>>
    /\ scaleUpCalls = <<>>
    /\ restoreCalls = <<>>
    /\ log = <<>>
    /\ args = <<>>
    /\ result = <<>>

NextDeleteIndex ==
    \/ DeleteIndex
    \/ VerifyDeletion

FairDeleteIndex ==
    InitDeleteIndex /\ [][NextDeleteIndex]_vars /\ WF_vars(NextDeleteIndex)

\* The existence checks and sleeps made so far stay within the budget, and a
\* sleep only follows a check.
WithinBudget ==
    /\ Len(answers) <= defaultMaxIndexDeleteAttempts
    /\ sleeps <= defaultMaxIndexDeleteAttempts - 1
    /\ sleeps <= Len(answers)
    /\ pc = "verifyReturn" /\ answers # <<>> => sleeps = Len(answers) - 1

\* C31: whatever IndexExists answers, deleteIndexWithVerification returns,
\* having made at most defaultMaxIndexDeleteAttempts existence checks and at
\* most defaultMaxIndexDeleteAttempts - 1 sleeps.
C31_BoundedVerification == [](WithinBudget) /\ <>(pc = "verifyReturn")

C31_Witness ==
    /\ pc = "verifyReturn"
    /\ calls[1].op = "DeleteIndex"
    /\ calls[1].ok
    /\ Len(answers) = defaultMaxIndexDeleteAttempts
    /\ sleeps = defaultMaxIndexDeleteAttempts - 1
    /\ Len(calls) = 2
    /\ calls[2].op = "VerifyTimeout"

\* ------------------------------------------------------- delete targets
\* Positions of deleteIndices and deleteIndexWithVerification.
DeletePositions == {"deleteIndices", "confirm", "rollover", "deleteIndex", "verify", "verifyReturn"}

\* The name has the index prefix or the data-stream prefix.
Managed(index) ==
    StartsWith(index, IndexPrefix) \/ StartsWith(index, DatastreamIndexPrefix)

\* A step keeps to the list made from the listing: the listing is called
\* before any rollover or delete call, the managed list does not change while
\* deleteIndices runs, and a delete call takes its target from that list.
DeleteTargetRule ==
    /\ Issues({"ListIndices"}) =>
          Ops({"ListIndices", "RolloverDatastream", "DeleteIndex"}) = {}
    /\ (pc \in DeletePositions /\ pc' \in DeletePositions) => stsIndices' = stsIndices
    /\ Issues({"DeleteIndex"}) =>
          /\ \E k \in DOMAIN stsIndices : calls'[Len(calls')].idx = stsIndices[k]
          /\ \A k \in Ops({"DeleteIndex"}) : calls[k].idx # calls'[Len(calls')].idx
          /\ Ops({"ListIndices"}) # {}

\* C32: the indices are listed once, before any rollover or delete call;
\* every delete call names an index of the managed list made from that
\* listing, which carries one of the two prefixes, and the list stays as it
\* is through the rollover and the deletions, so that an index that appears
\* after the listing is not deleted.
C32_DeleteOnlyListed ==
    /\ [][DeleteTargetRule]_vars
    /\ [](/\ Cardinality(Ops({"ListIndices"})) <= 1
          /\ \A k \in Ops({"DeleteIndex"}) : Managed(calls[k].idx)
          /\ \A k \in DOMAIN stsIndices : Managed(stsIndices[k]))

C32_Witness ==
    /\ pc = "verifyReturn"
    /\ stsIndices = << <<"s", "_", "k", "-", "1">>, <<"s", "_", "t">> >>
    /\ i = 2
    /\ Ops({"RolloverDatastream"}) # {}
    /\ { calls[k].idx : k \in Ops({"DeleteIndex"}) } = Range(stsIndices)
    /\ answers = << "absent" >>

\* -------------------------------------------------- snapshot before deletion
\* The snapshot has been fetched with success.
SnapshotFetched == \E k \in Ops({"GetSnapshot"}) : calls[k].ok

\* C33: a rollover or delete call is issued only after GetSnapshot has
\* returned the snapshot, and a run whose GetSnapshot failed has made no
\* delete call.
C33_SnapshotBeforeDeletion ==
    /\ [][Issues({"RolloverDatastream", "DeleteIndex"}) => SnapshotFetched]_vars
    /\ []((\E k \in Ops({"GetSnapshot"}) : ~calls[k].ok) => Ops({"DeleteIndex"}) = {})

\* ------------------------------------------------ ScaleUpDeployments alone
\* Snapshot lists ScaleUpDeployments may be handed: one entry per deployment
\* at most, any order, any original count.
NoRepeat(names) ==
    \A a, b \in DOMAIN names : a # b => names[a] # names[b]
ScaleLists ==
    { l \in UNION { [1..n -> [Name : Range(DeploymentNames), Replicas : 0..MaxReplicas]] :
                      n \in 1..Len(DeploymentNames) } :
        NoRepeat([k \in DOMAIN l |-> l[k].Name]) }

\* ScaleUpDeployments called with the cluster as it is at resume time: since
\* the pause (initialCluster) the labels and the replica count of any
\* deployment may have been changed by someone else.
InitScaleUp ==
    /\ pc = "scaleUpGet"
    /\ scaledDeployments \in ScaleLists
    /\ i = 1
    /\ cluster \in [Range(DeploymentNames) -> [matches : BOOLEAN, replicas : ReplicaValues]]
    /\ \E labels \in [Range(DeploymentNames) -> BOOLEAN] :
           initialCluster = [d \in Range(DeploymentNames) |->
                               [matches |-> labels[d], replicas |-> cluster[d].replicas]]
    /\ defers = << "scaleUp" >>
    /\ dropAllIndices = FALSE
    /\ skipConfirmation = FALSE
    /\ quiet = FALSE
    /\ items = <<>>
    /\ captured = scaledDeployments
    /\ subErr = <<>>
    /\ tunnel = "none"
    /\ stopChan = "nil"
    /\ stsIndices = <<>>
    /\ attempt = 0
    /\ answers = <<>>
    /\ sleeps = 0
    /\ delErr = <<>>
    /\ snapshotState = ""
    /\ err = <<>>
    /\ exitCode = -1
    /\ calls = <<>>
    /\ scaleUpCalls = << scaledDeployments >>
    /\ restoreCalls = <<>>
    /\ log = <<>>
    /\ args = <<>>
    /\ result = <<>>

NextScaleUp ==
    \/ ScaleUpGet
    \/ ScaleUpUpdate

SpecScaleUp == InitScaleUp /\ [][NextScaleUp]_vars

\* A step of the resume: the snapshot list stays as it is; the labels of
\* every deployment stay as they are at resume time; a deployment changes
\* only in its replica count, only by the update of the current snapshot and
\* only to that snapshot's original count; and an update follows the fetch
\* of the same deployment.
ResumeStepRule ==
    /\ scaledDeployments' = scaledDeployments
    /\ \A d \in Range(DeploymentNames) :
          /\ cluster'[d].matches = cluster[d].matches
          /\ cluster'[d] # cluster[d] =>
                /\ pc = "scaleUpUpdate"
                /\ d = scaledDeployments[i].Name
                /\ cluster'[d].replicas = << scaledDeployments[i].Replicas >>
    /\ Issues({"UpdateDeployment"}) =>
          /\ calls # <<>>
          /\ calls[Len(calls)].op = "GetDeployment"
          /\ calls[Len(calls)].ok
          /\ calls[Len(calls)].dep = calls'[Len(calls')].dep
          /\ calls'[Len(calls')].dep = scaledDeployments[i].Name
          /\ calls'[Len(calls')].n = scaledDeployments[i].Replicas

\* C34: for each snapshot the resume fetches the deployment and then updates
\* it with only the replica count changed, to the snapshot's original count;
\* whatever else differs from the time of the pause stays, and the snapshot
\* list is not modified.
C34_ResumeChangesReplicasOnly == [][ResumeStepRule]_vars

C34_Witness ==
    /\ pc = "scaleUpReturn"
    /\ subErr = <<>>
    /\ scaledDeployments = << [Name |-> "A", Replicas |-> 1] >>
    /\ initialCluster["A"].matches
    /\ ~cluster["A"].matches
    /\ initialCluster["A"].replicas = <<0>>
    /\ cluster["A"].replicas = <<1>>
    /\ Len(calls) = 2

\* ------------------------------------------------- deployments left alone
\* Deployments the trace or the lists of the run name.
NamedInCalls == { calls[k].dep : k \in DOMAIN calls } \ {""}
NamedInLists ==
    { items[k].name : k \in DOMAIN items }
        \cup { captured[k].Name : k \in DOMAIN captured }
        \cup { scaledDeployments[k].Name : k \in DOMAIN scaledDeployments }

\* C35: a deployment that does not match the selector stays as it was before
\* the run, is not listed, recorded, fetched or updated, and every
\* deployment the resume fetches or updates is in the snapshot list.
C35_NonMatchingUntouched ==
    /\ \A d \in Range(DeploymentNames) :
          ~initialCluster[d].matches =>
             /\ cluster[d] = initialCluster[d]
             /\ d \notin NamedInCalls
             /\ d \notin NamedInLists
    /\ \A k \in Ops({"GetDeployment", "UpdateDeployment"}) :
          k >= ResumeStart =>
             \E j \in DOMAIN scaledDeployments : scaledDeployments[j].Name = calls[k].dep

C35_Witness ==
    /\ pc = "exited"
    /\ initialCluster["A"] = [matches |-> FALSE, replicas |-> <<1>>]
    /\ initialCluster["B"] = [matches |-> TRUE, replicas |-> <<1>>]
    /\ cluster = initialCluster
    /\ scaledDeployments = << [Name |-> "B", Replicas |-> 1] >>
    /\ Cardinality(Ops({"UpdateDeployment"})) = 2
    /\ NamedInCalls = {"B"}

\* ------------------------------------------ k8s.Client.PortForwardService
\* Pods the selector of the service matches, in list order: the k-th pod of
\* a list has the k-th name.
PodNames == << "es-0", "es-1", "es-2", "es-3", "es-4" >>
PodPhases == {"Pending", "Running", "Succeeded"}
PodItems ==
    { [k \in DOMAIN phases |-> [Name |-> PodNames[k], Phase |-> phases[k]]] :
        phases \in UNION { [1..m -> PodPhases] : m \in 0..MaxPods } }

\* The loop over podList.Items without its break: the last Running pod.
RECURSIVE FindRunning_NoBreak(_, _)
FindRunning_NoBreak(podItems, k) ==
    IF k > Len(podItems) THEN <<>>
    ELSE LET later == FindRunning_NoBreak(podItems, k + 1)
         IN  IF later # <<>> THEN later
             ELSE IF podItems[k].Phase = "Running" THEN << podItems[k] >>
             ELSE <<>>

\* The loop over podList.Items from position k: targetPod, nil as <<>>.
RECURSIVE FindRunning(_, _)
FindRunning(podItems, k) ==
    IF k > Len(podItems) THEN <<>>
    ELSE IF podItems[k].Phase = "Running" THEN << podItems[k] >>
    ELSE FindRunning(podItems, k + 1)

\* What PortForwardService returns and starts: its error, and the pod the
\* background task of PortForwardPod forwards to (<<>> when no task runs).
Forwarding(pod) == [err |-> <<>>, task |-> << pod.Name >>]
NotForwarding(e) == [err |-> e, task |-> <<>>]

\* PortForwardService with what the API server answers: whether the service
\* exists, whether the pod listing works and what it holds, and whether
\* PortForwardPod can build its forwarder.
PortForwardServiceResult(serviceFound, listOk, podItems, forwarderOk) ==
    LET targetPod == FindRunning(podItems, 1)
    IN  IF ~serviceFound
        THEN NotForwarding(Wrap(Err("failed to get service"), ApiError))
        ELSE IF ~listOk
        THEN NotForwarding(Wrap(Err("failed to list pods"), ApiError))
        ELSE IF Len(podItems) = 0
        THEN NotForwarding(<< Err("no pods found for service") >>)
        ELSE IF targetPod = <<>>
        THEN NotForwarding(<< Err("no running pods found for service") >>)
        ELSE IF ~forwarderOk
        THEN NotForwarding(Wrap(Err("failed to create port forwarder"), ApiError))
        ELSE Forwarding(targetPod[1])

InitPortForward ==
    /\ pc = "call"
    /\ args \in [serviceFound : BOOLEAN, podItems : PodItems]
    /\ result = <<>>
    /\ RunIdle

CallPortForwardService ==
    /\ pc = "call"
    /\ \E listOk, forwarderOk \in BOOLEAN :
          result' = [ listOk |-> listOk, forwarderOk |-> forwarderOk,
                      returned |-> PortForwardServiceResult(args.serviceFound, listOk,
                                                            args.podItems, forwarderOk) ]
    /\ pc' = "forwarded"
    /\ UNCHANGED << args, runVars >>

NextPortForward == CallPortForwardService

SpecPortForward == InitPortForward /\ [][NextPortForward]_vars

\* Positions of the Running pods of the listing.
RunningPods == { k \in DOMAIN args.podItems : args.podItems[k].Phase = "Running" }

\* C36: without the service, without a matching pod or without a Running one
\* PortForwardService returns an error and starts no background task; so
\* does a failed API call or forwarder set-up; in every other case it returns
\* no error and the task forwards to the first Running pod of the listing.
C36_FirstRunningPod ==
    pc = "forwarded" =>
        LET r == result.returned
        IN  /\ (r.err # <<>>) <=> (r.task = <<>>)
            /\ ( \/ ~args.serviceFound
                 \/ args.podItems = <<>>
                 \/ RunningPods = {} ) => (r.err # <<>> /\ r.task = <<>>)
            /\ (~result.listOk \/ ~result.forwarderOk) => (r.err # <<>> /\ r.task = <<>>)
            /\ ( /\ args.serviceFound
                 /\ RunningPods # {}
                 /\ result.listOk
                 /\ result.forwarderOk ) =>
                   /\ r.err = <<>>
                   /\ \E k \in RunningPods :
                         /\ \A j \in RunningPods : k <= j
                         /\ r.task = << args.podItems[k].Name >>

C36_Witness ==
    /\ pc = "forwarded"
    /\ args.serviceFound
    /\ Len(args.podItems) = 3
    /\ args.podItems[1].Phase = "Pending"
    /\ args.podItems[2].Phase = "Running"
    /\ args.podItems[3].Phase = "Running"
    /\ result.returned = [err |-> <<>>, task |-> << "es-1" >>]

\* ------------------------------- list-indices, list-snapshots, configure
\* The three commands share their set-up: Kubernetes client, configuration,
\* port-forward with its deferred close, wait for readiness, search-engine
\* client.  args holds the command, the output format and the two keys of
\* the snapshot repository as the ConfigMap and Secret give them.
Commands == {"list-indices", "list-snapshots", "configure"}
Keys == {"", "key"}

\* Variables of runRestore that these commands do not have.
restoreOnly ==
    << dropAllIndices, skipConfirmation, quiet, cluster, initialCluster, items, i,
       captured, subErr, scaledDeployments, stsIndices, attempt, answers, sleeps,
       delErr, snapshotState, scaleUpCalls, restoreCalls >>

InitCommand ==
    /\ pc = "cmdNewK8sClient"
    /\ args \in [command : Commands, format : {"table", "json"},
                  accessKey : Keys, secretKey : Keys]
    /\ result = <<>>
    /\ RunIdle

\* A return statement of the command: the deferred close runs next.
CmdReturn(e) ==
    /\ err' = e
    /\ pc' = "cmdDefers"

\* k8s.NewClient
CmdNewK8sClient ==
    /\ pc = "cmdNewK8sClient"
    /\ \/ /\ calls' = Append(calls, Call("NewK8sClient", "", <<>>, 0, FALSE))
          /\ CmdReturn(Wrap(Err("failed to create Kubernetes client"), ApiError))
       \/ /\ calls' = Append(calls, Call("NewK8sClient", "", <<>>, 0, TRUE))
          /\ pc' = "cmdLoadConfig"
          /\ UNCHANGED err
    /\ UNCHANGED << restoreOnly, fnVars, tunnelVars, defers, exitCode, log >>

\* config.LoadConfig, whose validation requires both keys, and in configure
\* the check of the two keys that follows it.
CmdLoadConfig ==
    /\ pc = "cmdLoadConfig"
    /\ \/ /\ calls' = Append(calls, Call("LoadConfig", "", <<>>, 0, FALSE))
          /\ CmdReturn(Wrap(Err("failed to load configuration"), ApiError))
       \/ /\ args.accessKey = "" \/ args.secretKey = ""
          /\ calls' = Append(calls, Call("LoadConfig", "", <<>>, 0, FALSE))
          /\ CmdReturn(Wrap(Err("failed to load configuration"),
                            << Err("configuration validation failed") >>))
       \/ /\ args.accessKey # "" /\ args.secretKey # ""
          /\ calls' = Append(calls, Call("LoadConfig", "", <<>>, 0, TRUE))
          /\ IF args.command = "configure" /\ (args.accessKey = "" \/ args.secretKey = "")
             THEN CmdReturn(<< Err("accessKey and secretKey are required in the secret configuration") >>)
             ELSE pc' = "cmdPortForward" /\ UNCHANGED err
    /\ UNCHANGED << restoreOnly, fnVars, tunnelVars, defers, exitCode, log >>

\* CmdPortForwardService without the deferred close of the stop channel.
CmdPortForwardService_NoDefer ==
    /\ pc = "cmdPortForward"
    /\ \/ /\ calls' = Append(calls, Call("PortForwardService", "", <<>>, 0, FALSE))
          /\ CmdReturn(Wrap(Err("failed to setup port-forward"), ApiError))
          /\ UNCHANGED << tunnelVars, defers >>
       \/ /\ calls' = Append(calls, Call("PortForwardService", "", <<>>, 0, TRUE))
          /\ tunnel' = "forwarding"
          /\ stopChan' = "open"
          /\ pc' = "cmdWaitReady"
          /\ UNCHANGED << err, defers >>
    /\ UNCHANGED << restoreOnly, fnVars, exitCode, log >>

\* PortForwardService and `defer close(stopChan)`.
CmdPortForwardService ==
    /\ pc = "cmdPortForward"
    /\ \/ /\ calls' = Append(calls, Call("PortForwardService", "", <<>>, 0, FALSE))
          /\ CmdReturn(Wrap(Err("failed to setup port-forward"), ApiError))
          /\ UNCHANGED << tunnelVars, defers >>
       \/ /\ calls' = Append(calls, Call("PortForwardService", "", <<>>, 0, TRUE))
          /\ tunnel' = "forwarding"
          /\ stopChan' = "open"
          /\ defers' = Append(defers, "closeStop")
          /\ pc' = "cmdWaitReady"
          /\ UNCHANGED err
    /\ UNCHANGED << restoreOnly, fnVars, exitCode, log >>

\* <-readyChan
CmdWaitReady ==
    /\ pc = "cmdWaitReady"
    /\ tunnel = "ready"
    /\ pc' = "cmdNewESClient"
    /\ calls' = Append(calls, Call("ReadyReceived", "", <<>>, 0, TRUE))
    /\ log' = Successf(log, "Port-forward established successfully")
    /\ UNCHANGED << restoreOnly, fnVars, tunnelVars, defers, err, exitCode >>

\* elasticsearch.NewClient
CmdNewESClient ==
    /\ pc = "cmdNewESClient"
    /\ \/ /\ calls' = Append(calls, Call("NewESClient", "", <<>>, 0, FALSE))
          /\ CmdReturn(Wrap(Err("failed to create Elasticsearch client"), ApiError))
       \/ /\ calls' = Append(calls, Call("NewESClient", "", <<>>, 0, TRUE))
          /\ pc' = "cmdWork"
          /\ UNCHANGED err
    /\ UNCHANGED << restoreOnly, fnVars, tunnelVars, defers, exitCode, log >>

\* Tables the two list commands print: their headers and one sample row.
IndicesHeaders ==
    << "HEALTH", "STATUS", "INDEX", "UUID", "PRI", "REP", "DOCS.COUNT", "DOCS.DELETED",
       "STORE.SIZE", "PRI.STORE.SIZE", "DATASET.SIZE" >>
IndexRow == << "green", "open", "sts_t", "u1", "1", "0", "10", "0", "1kb", "1kb", "1kb" >>
SnapshotsHeaders == << "SNAPSHOT", "STATE", "START TIME", "DURATION (ms)", "FAILURES" >>
SnapshotRow == << "snap-1", "SUCCESS", "t0", "5", "0" >>

\* The rest of runListIndices: the listing and its output.
CmdListIndicesDetailed ==
    /\ pc = "cmdWork"
    /\ args.command = "list-indices"
    /\ \/ /\ calls' = Append(calls, Call("ListIndicesDetailed", "", <<>>, 0, FALSE))
          /\ CmdReturn(Wrap(Err("failed to list indices"), ApiError))
          /\ UNCHANGED result
       \/ \E rows \in { <<>>, << IndexRow >> } :
          /\ calls' = Append(calls, Call("ListIndicesDetailed", "", <<>>, Len(rows), TRUE))
          /\ result' = IF Len(rows) = 0
                       THEN PrintMessage(NewFormatter(args.format), "No indices found")
                       ELSE PrintTable(NewFormatter(args.format),
                                       [Headers |-> IndicesHeaders, Rows |-> rows])
          /\ CmdReturn(<<>>)
    /\ UNCHANGED << restoreOnly, args, tunnelVars, defers, exitCode, log >>

\* The rest of runListSnapshots: the listing and its output.
CmdListSnapshots ==
    /\ pc = "cmdWork"
    /\ args.command = "list-snapshots"
    /\ \/ /\ calls' = Append(calls, Call("ListSnapshots", "", <<>>, 0, FALSE))
          /\ CmdReturn(Wrap(Err("failed to list snapshots"), ApiError))
          /\ UNCHANGED result
       \/ \E rows \in { <<>>, << SnapshotRow >> } :
          /\ calls' = Append(calls, Call("ListSnapshots", "", <<>>, Len(rows), TRUE))
          /\ result' = IF Len(rows) = 0
                       THEN PrintMessage(NewFormatter(args.format), "No snapshots found")
                       ELSE PrintTable(NewFormatter(args.format),
                                       [Headers |-> SnapshotsHeaders, Rows |-> rows])
          /\ CmdReturn(<<>>)
    /\ UNCHANGED << restoreOnly, args, tunnelVars, defers, exitCode, log >>

\* CmdConfigureSnapshotRepository going on to the SLM policy after a failure.
CmdConfigureSnapshotRepository_IgnoreError ==
    /\ pc = "cmdWork"
    /\ args.command = "configure"
    /\ \E ok \in BOOLEAN :
          /\ calls' = Append(calls, Call("ConfigureSnapshotRepository", "", <<>>, 0, ok))
          /\ log' = Successf(log, "Snapshot repository configured successfully")
          /\ pc' = "cmdSLM"
          /\ UNCHANGED err
    /\ UNCHANGED << restoreOnly, fnVars, tunnelVars, defers, exitCode >>

\* runConfigure: esClient.ConfigureSnapshotRepository
CmdConfigureSnapshotRepository ==
    /\ pc = "cmdWork"
    /\ args.command = "configure"
    /\ \/ /\ calls' = Append(calls, Call("ConfigureSnapshotRepository", "", <<>>, 0, FALSE))
          /\ CmdReturn(Wrap(Err("failed to configure snapshot repository"), ApiError))
          /\ UNCHANGED log
       \/ /\ calls' = Append(calls, Call("ConfigureSnapshotRepository", "", <<>>, 0, TRUE))
          /\ log' = Successf(log, "Snapshot repository configured successfully")
          /\ pc' = "cmdSLM"
          /\ UNCHANGED err
    /\ UNCHANGED << restoreOnly, fnVars, tunnelVars, defers, exitCode >>

\* runConfigure: esClient.ConfigureSLMPolicy and the return.
CmdConfigureSLMPolicy ==
    /\ pc = "cmdSLM"
    /\ \/ /\ calls' = Append(calls, Call("ConfigureSLMPolicy", "", <<>>, 0, FALSE))
          /\ CmdReturn(Wrap(Err("failed to configure SLM policy"), ApiError))
          /\ UNCHANGED log
       \/ /\ calls' = Append(calls, Call("ConfigureSLMPolicy", "", <<>>, 0, TRUE))
          /\ log' = Successf(Println(Successf(log, "SLM policy configured successfully")),
                             "Configuration completed successfully")
          /\ CmdReturn(<<>>)
    /\ UNCHANGED << restoreOnly, fnVars, tunnelVars, defers, exitCode >>

\* The deferred close(stopChan), if it was registered, then the return.
CmdRunDefers ==
    /\ pc = "cmdDefers"
    /\ IF defers = <<>>
       THEN /\ pc' = "cmdReturned"
            /\ UNCHANGED << defers, tunnelVars >>
       ELSE /\ stopChan' = "closed"
            /\ tunnel' = "stopped"
            /\ defers' = SubSeq(defers, 1, Len(defers) - 1)
            /\ UNCHANGED pc
    /\ UNCHANGED << restoreOnly, fnVars, err, exitCode, calls, log >>

\* The Run function of the cobra command: the error on stderr and exit 1.
CmdRun ==
    /\ pc = "cmdReturned"
    /\ pc' = "cmdExited"
    /\ exitCode' = IF err # <<>> THEN 1 ELSE 0
    /\ log' = IF err # <<>> THEN Append(log, LogLine("stderr", "error", err)) ELSE log
    /\ UNCHANGED << restoreOnly, fnVars, tunnelVars, defers, err, calls >>

NextCommand ==
    \/ CmdNewK8sClient
    \/ CmdLoadConfig
    \/ CmdPortForwardService
    \/ ForwardPortsReady
    \/ ForwardPortsFail
    \/ CmdWaitReady
    \/ CmdNewESClient
    \/ CmdListIndicesDetailed
    \/ CmdListSnapshots
    \/ CmdConfigureSnapshotRepository
    \/ CmdConfigureSLMPolicy
    \/ CmdRunDefers
    \/ CmdRun

SpecCommand == InitCommand /\ [][NextCommand]_vars

\* Calls of a command past its configuration: the tunnel and the search
\* engine.
TunnelAndSearchEngineOps ==
    {"PortForwardService", "ReadyReceived", "NewESClient", "ListIndicesDetailed",
     "ListSnapshots", "ConfigureSnapshotRepository", "ConfigureSLMPolicy"}

\* C37: configure with an empty accessKey or secretKey opens no tunnel and
\* calls the search engine never; the SLM policy call comes after a
\* repository call that succeeded, and after a failed repository call there
\* is no SLM policy call.
C37_ConfigureOrder ==
    args.command = "configure" =>
        /\ (args.accessKey = "" \/ args.secretKey = "") =>
              /\ Ops(TunnelAndSearchEngineOps) = {}
              /\ tunnel = "none"
              /\ stopChan = "nil"
              /\ pc = "cmdExited" => exitCode = 1
        /\ \A k \in Ops({"ConfigureSLMPolicy"}) :
              \E j \in Ops({"ConfigureSnapshotRepository"}) : j < k /\ calls[j].ok
        /\ (\E j \in Ops({"ConfigureSnapshotRepository"}) : ~calls[j].ok) =>
              Ops({"ConfigureSLMPolicy"}) = {}
        /\ Cardinality(Ops({"ConfigureSnapshotRepository"})) <= 1
        /\ Cardinality(Ops({"ConfigureSLMPolicy"})) <= 1

C37_Witness ==
    /\ pc = "cmdExited"
    /\ args.command = "configure"
    /\ exitCode = 0
    /\ \E j \in Ops({"ConfigureSnapshotRepository"}), k \in Ops({"ConfigureSLMPolicy"}) :
          j < k /\ calls[j].ok /\ calls[k].ok

\* ------------------------------------------------------ the four commands
\* restore-snapshot together with the three other commands.
InitAnyCommand == Init \/ InitCommand
NextAnyCommand == Next \/ NextCommand
SpecAnyCommand == InitAnyCommand /\ [][NextAnyCommand]_vars

\* The command has returned to its caller.
CommandEnded == pc \in {"returned", "exited", "cmdReturned", "cmdExited"}

\* The tunnel was opened: PortForwardService returned its channels.
TunnelOpened == \E k \in Ops({"PortForwardService"}) : calls[k].ok

\* Deferred closes of the stop channel still to run.
PendingCloses == { k \in DOMAIN defers : defers[k] = "closeStop" }

\* A step treats the stop channel by the rules: it is made by a successful
\* PortForwardService, which registers its one deferred close; a deferred
\* close runs on an open channel and closes it; a closed channel stays
\* closed.
StopChanStepRule ==
    /\ stopChan' # stopChan =>
          \/ /\ stopChan = "nil"
             /\ stopChan' = "open"
             /\ Issues({"PortForwardService"})
             /\ calls'[Len(calls')].ok
          \/ /\ stopChan = "open"
             /\ stopChan' = "closed"
             /\ pc \in {"defers", "cmdDefers"}
    /\ Cardinality({ k \in DOMAIN defers' : defers'[k] = "closeStop" })
          < Cardinality(PendingCloses) =>
             (stopChan = "open" /\ stopChan' = "closed")
    /\ (Issues({"PortForwardService"}) /\ ~calls'[Len(calls')].ok) =>
          (stopChan' = "nil" /\ PendingCloses = {} /\ defers' = defers)

\* C38: in each of the four commands a stop channel that PortForwardService
\* returned is closed once by the time the command returns, by the one
\* deferred close registered for it, and no close is registered or run when
\* PortForwardService failed or was not reached.
C38_StopChanClosedOnce ==
    /\ [][StopChanStepRule]_vars
    /\ [](/\ Cardinality(PendingCloses) <= 1
          /\ (stopChan = "open") <=> (PendingCloses # {})
          /\ TunnelOpened <=> (stopChan # "nil")
          /\ CommandEnded =>
                /\ PendingCloses = {}
                /\ stopChan = IF TunnelOpened THEN "closed" ELSE "nil")

C38_Witness ==
    /\ pc = "cmdExited"
    /\ args.command = "list-snapshots"
    /\ exitCode = 1
    /\ TunnelOpened
    /\ stopChan = "closed"
    /\ \E k \in Ops({"ListSnapshots"}) : ~calls[k].ok

====
